---- MODULE Spec2Model ----
(***************************************************************************)
(* Bar-replay backtest engine (app/core/strategies): run_backtest with its *)
(* broker math (broker.py) and portfolio helpers (portfolio.py).           *)
(*                                                                         *)
(* Number representation.  The program computes on floats; the model uses  *)
(* exact fixed-point integers.  Prices, cash, equity, fees and pnl are     *)
(* integers in units of 1/FP; sizes, basis points and timestamps are plain *)
(* integers; leverage is an integer in units of 1/LevScale.  The inputs    *)
(* (whole prices, basis points that are multiples of 100, leverage in      *)
(* halves) are chosen so that every division of the code is exact.         *)
(***************************************************************************)
EXTENDS Integers, Sequences, FiniteSets, TLC

VARIABLES
    bars_none,        \* the `bars` argument is None
    bars,             \* the `bars` argument: sequence of [ts, open, close]
    strategy_module,  \* which optional callbacks the strategy defines, and
                      \* the bar indices on which its on_bar submits orders
    config,           \* RunConfig
    has_cancel_flag,  \* a cancel_flag callable was passed
    has_progress_cb,  \* a progress_cb callable was passed
    cancel_requested, \* what cancel_flag() returns when it is called
    pc,               \* position of run_backtest
    i,                \* the loop variable of `for i in range(0, n - 1)`
    oi,               \* index of `o` in `for o in pending_orders`
    status,
    position,         \* ctx.position
    portfolio,        \* ctx.portfolio
    trading_enabled,  \* ctx.trading_enabled
    ctx_orders,       \* the order queue of the context
    ctx_logs,         \* messages logged through ctx.logger
    pending_orders,
    last_warn,        \* last_warn.get("scale", False)
    result,           \* BacktestResult
    returned,         \* run_backtest returned (result, status)
    budget,           \* orders the strategy may still submit
    events,           \* history: callbacks and close-outs, in order
    queued,           \* history: every order the context accepted
    polls,            \* history: the calls of cancel_flag(), [i, ret]
    processed,        \* history: indices that were marked to market
    resolved,         \* history: one entry per element of result.orders
    req_processed,    \* history: bars whose processing ended after the
                      \* cancellation was requested
    equity_seen,      \* history: the equity after each mark_to_market
    broker_call,      \* the last call of a broker function, with its result
    provider,         \* the bars the external provider holds for the series
    cache,            \* DataStore: the ohlcv rows of the series
    history_limit,    \* DataStore: the history-limit marker of the series
    fetch_call,       \* the last call of the fetch orchestrator, with what
                      \* it read, fetched and returned
    calls_left,       \* orchestrator calls still to be made
    table,            \* DataStore: the ohlcv table, rows of every series
    store_call,       \* the last write to the table, with what it was given
    writes_left,      \* writes to the table still to be made
    tf_call,          \* the last call of timeframe_to_ms, with its result
    view,             \* ChartView: the fields its fetch and live paths use
    workers,          \* the DataFetchWorker threads that were started
    streams,          \* the LiveKlineWorker threads that were started
    signals,          \* signals queued for the GUI thread, oldest first
    view_log,         \* the last handler the GUI thread ran, with what it did
    requests_left,    \* fetch requests still to be made
    klines_left       \* kline messages still to arrive

vars == <<bars_none, bars, strategy_module, config, has_cancel_flag,
          has_progress_cb, cancel_requested, pc, i, oi, status, position,
          portfolio, trading_enabled, ctx_orders, ctx_logs, pending_orders,
          last_warn, result, returned, budget, events, queued, polls,
          processed, resolved, req_processed, equity_seen, broker_call,
          provider, cache, history_limit, fetch_call, calls_left,
          table, store_call, writes_left, tf_call,
          view, workers, streams, signals, view_log, requests_left, klines_left>>

\* the bar cache and its orchestrator
fetch_vars == <<provider, cache, history_limit, fetch_call, calls_left>>

\* the state outside run_backtest, which no step of a run touches
\* the ohlcv table written row by row, and the timeframe parser
store_vars == <<table, store_call, writes_left, tf_call>>

\* the chart view with its worker threads
chart_vars == <<view, workers, streams, signals, view_log, requests_left, klines_left>>

other_vars == <<broker_call, fetch_vars, store_vars, chart_vars>>

(***************************************************************************)
(* Bounds of the model and program constants                               *)
(***************************************************************************)
MaxBars == 4          \* longest bar series of the short runs
MaxOrders == 3        \* orders a strategy submits over one run
MaxBatch == 2         \* orders a strategy submits in one on_bar
MaxSize == 2          \* largest order size
LongExtra == 2        \* long runs have up to cancel_every + LongExtra bars

BpsDen == 10000       \* broker.py: the divisor of basis points, 10000.0
FP == BpsDen          \* fixed-point unit of prices and money
LevScale == 2         \* leverage is counted in units of 1/LevScale
cancel_every == 100   \* backtest.py: cancel_every = 100
Interval == 60        \* bar spacing of the generated series
None == -1            \* Python None for the nullable numeric fields

Abs(x) == IF x < 0 THEN -x ELSE x
Max(a, b) == IF a >= b THEN a ELSE b
Min(a, b) == IF a <= b THEN a ELSE b
Last(s) == s[Len(s)]

\* Python `x or d` for a nullable number: None and 0 are falsy.
OrElse(x, d) == IF x = None \/ x = 0 THEN d ELSE x

(***************************************************************************)
(* broker.py                                                               *)
(***************************************************************************)
compute_fill_price(open_price, side, slippage_bps) ==
    IF side = "BUY" THEN open_price + (open_price * slippage_bps) \div BpsDen
    ELSE IF side = "SELL" THEN open_price - (open_price * slippage_bps) \div BpsDen
    ELSE open_price

compute_fee(size, price, commission_bps) ==
    (Abs(size) * price * commission_bps) \div BpsDen

\* leverage is in units of 1/LevScale; `leverage <= 0` becomes 1.0
margin_required(size, price, leverage) ==
    LET lev == IF leverage <= 0 THEN LevScale ELSE leverage
    IN  (Abs(size) * price * LevScale) \div lev

\* the margin check made against the notional, leverage ignored
can_fill_mut_notional(size, price, equity, leverage) ==
    Abs(size) * price <= equity

can_fill(size, price, equity, leverage) ==
    margin_required(size, price, leverage) <= equity

\* no broker function was called yet
NoCall == [fn |-> "none"]

\* no orchestrator call was made yet
NoFetch == [mode |-> "none"]

\* no bar cache in use: nothing held, nothing cached, no call to make
FetchIdle ==
    /\ provider = {}
    /\ cache = {}
    /\ history_limit = [oldest_ts |-> None, reached |-> FALSE]
    /\ fetch_call = NoFetch
    /\ calls_left = 0

\* nothing written to the table, no timeframe parsed
StoreIdle ==
    /\ table = {}
    /\ store_call = NoCall
    /\ writes_left = 0
    /\ tf_call = NoCall

\* no chart view in use
ChartIdle ==
    /\ view = NoCall
    /\ workers = {}
    /\ streams = {}
    /\ signals = <<>>
    /\ view_log = NoCall
    /\ requests_left = 0
    /\ klines_left = 0

(***************************************************************************)
(* portfolio.py                                                            *)
(***************************************************************************)
\* Portfolio.update_drawdown: peak is the largest equity seen; the drawdown
\* (peak - equity) / peak is kept as the exact fraction num/den.
update_drawdown(pf) ==
    LET peak == IF pf.peak = None THEN pf.equity ELSE Max(pf.peak, pf.equity)
    IN  [pf EXCEPT !.peak = peak,
                   !.drawdown = IF peak > 0
                                THEN [num |-> Max(0, peak - pf.equity), den |-> peak]
                                ELSE [num |-> 0, den |-> 1]]

\* the unrealized pnl computed on the absolute size, wrong for a short
mark_to_market_mut_abs(pf, pos, price) ==
    IF pos.size = 0 \/ pos.entry_price = None
    THEN update_drawdown([pf EXCEPT !.equity = pf.cash])
    ELSE update_drawdown(
            [pf EXCEPT !.equity = pf.cash + (price - pos.entry_price) * Abs(pos.size)])

mark_to_market(pf, pos, price) ==
    IF pos.size = 0 \/ pos.entry_price = None
    THEN update_drawdown([pf EXCEPT !.equity = pf.cash])
    ELSE update_drawdown(
            [pf EXCEPT !.equity = pf.cash + (price - pos.entry_price) * pos.size])

FlatPosition == [size |-> 0, entry_price |-> None, entry_ts |-> None]

close_position(pos) == FlatPosition

position_side(pos) ==
    IF pos.size > 0 THEN "LONG" ELSE IF pos.size < 0 THEN "SHORT" ELSE "None"

(***************************************************************************)
(* Inputs of a run                                                         *)
(***************************************************************************)
OpenAt(seed, k) == 10 + ((3 * k + seed) % 5)
CloseAt(seed, k) == 10 + ((3 * k + 2 * seed + 2) % 7)

\* n bars with strictly increasing timestamps and positive whole prices
BarSeries(seed, len) ==
    [k \in 1..len |-> [ts |-> (k - 1) * Interval,
                     open |-> FP * OpenAt(seed, k - 1),
                     close |-> FP * CloseAt(seed, k - 1)]]

\* what a strategy passes to ctx.buy / ctx.sell / ctx.flatten
Requests ==
    {[side |-> sd, size |-> sz] : sd \in {"BUY", "SELL"}, sz \in {1, MaxSize}}
        \cup {[side |-> "FLATTEN", size |-> 0]}

LongRequests ==
    {[side |-> "BUY", size |-> 1], [side |-> "BUY", size |-> MaxSize],
     [side |-> "SELL", size |-> 1], [side |-> "FLATTEN", size |-> 0]}

\* the batches of requests one on_bar may submit
Batches(menu, limit) ==
    UNION {[1..len -> menu] : len \in 0..Min(MaxBatch, limit)}

AllCallbacks(active, menu) ==
    [on_init |-> TRUE, on_bar |-> TRUE, on_order |-> TRUE, on_trade |-> TRUE,
     on_finish |-> TRUE, active |-> active, menu |-> menu]

OnlyOnBar(active, menu) ==
    [on_init |-> FALSE, on_bar |-> TRUE, on_order |-> FALSE, on_trade |-> FALSE,
     on_finish |-> FALSE, active |-> active, menu |-> menu]

RunConfig(cash, lev, comm, slip, start, cof) ==
    [initial_cash |-> cash * FP, leverage |-> lev, commission_bps |-> comm,
     slippage_bps |-> slip, start_ts |-> start, close_on_finish |-> cof]

\* leverage 1x with fees and slippage; leverage 2x without; one bar of
\* warmup; close_on_finish on and off
Configs ==
    {RunConfig(25, LevScale, 100, 100, 0, TRUE),
     RunConfig(25, 2 * LevScale, 0, 100, 0, FALSE),
     RunConfig(25, 2 * LevScale, 100, 100, Interval, TRUE)}

LongConfigs ==
    {RunConfig(25, LevScale, 100, 100, 0, TRUE),
     RunConfig(25, 2 * LevScale, 100, 0, Interval, FALSE)}

\* instants (loop indices) at which the user may request cancellation
CancelPoints == {0, cancel_every - 1, cancel_every}

\* bar indices on which the strategy of a long run submits orders
LongActive == {0, cancel_every - 2, cancel_every - 1, cancel_every}

n == Len(bars)
Bar(k) == bars[k + 1]

(***************************************************************************)
(* Initial states: the arguments of one call of run_backtest               *)
(***************************************************************************)
InitRun ==
    /\ pc = "call"
    /\ i = None
    /\ oi = 1
    /\ status = "None"
    /\ position = FlatPosition
    /\ portfolio = [cash |-> 0, equity |-> 0, peak |-> None,
                    drawdown |-> [num |-> 0, den |-> 1]]
    /\ trading_enabled = TRUE
    /\ ctx_orders = <<>>
    /\ ctx_logs = <<>>
    /\ pending_orders = <<>>
    /\ last_warn = FALSE
    /\ result = [equity_ts |-> <<>>, equity |-> <<>>, drawdown |-> <<>>,
                 position_size |-> <<>>, price |-> <<>>, orders |-> <<>>,
                 trades |-> <<>>, logs |-> <<>>]
    /\ returned = FALSE
    /\ cancel_requested = FALSE
    /\ events = <<>>
    /\ queued = {}
    /\ polls = {}
    /\ processed = {}
    /\ resolved = <<>>
    /\ req_processed = 0
    /\ equity_seen = <<>>
    /\ broker_call = NoCall

Init ==
    /\ InitRun
    /\ \E len \in 0..MaxBars :
          /\ bars = BarSeries(0, len)
          /\ bars_none \in (IF len = 0 THEN BOOLEAN ELSE {FALSE})
    /\ config \in Configs
    /\ strategy_module \in {AllCallbacks(0..MaxBars, Requests)}
    /\ \E hooks \in {<<TRUE, TRUE>>, <<FALSE, FALSE>>} :
          has_cancel_flag = hooks[1] /\ has_progress_cb = hooks[2]
    /\ budget = MaxOrders
    /\ FetchIdle
    /\ StoreIdle
    /\ ChartIdle

InitLong ==
    /\ InitRun
    /\ \E len \in {1} \cup (cancel_every + 1)..(cancel_every + LongExtra) :
          bars = BarSeries(1, len)
    /\ bars_none = FALSE
    /\ config \in LongConfigs
    /\ strategy_module \in {AllCallbacks(LongActive, LongRequests)}
    /\ has_cancel_flag = TRUE
    /\ has_progress_cb = TRUE
    /\ budget = MaxBatch
    /\ FetchIdle
    /\ StoreIdle
    /\ ChartIdle

(***************************************************************************)
(* run_backtest, lines 22-50: argument check, context, on_init             *)
(***************************************************************************)
\* one entry of the history of calls: callback, loop index, an argument
\* (ledger index of the order or trade, 1/0 for on_bar's trading_enabled)
\* and the position and cash as the callback sees them
Event(fn, idx, arg, pos, cash) ==
    [fn |-> fn, i |-> idx, arg |-> arg, pos |-> pos, cash |-> cash]

\* the check accepts a single bar
InsufficientData_mut_one == bars_none \/ Len(bars) < 1

\* line 22: `bars is None or len(bars) < 2`
InsufficientData == bars_none \/ Len(bars) < 2

\* `raise ValueError("Not enough bars for backtest")`
RaiseNotEnough ==
    /\ pc = "call"
    /\ InsufficientData
    /\ pc' = "raised"
    /\ UNCHANGED <<bars_none, bars, strategy_module, config, has_cancel_flag,
                   has_progress_cb, cancel_requested, i, oi, status, position,
                   portfolio, trading_enabled, ctx_orders, ctx_logs,
                   pending_orders, last_warn, result, returned, budget, events,
                   queued, polls, processed, resolved, req_processed,
                   equity_seen, other_vars>>

\* StrategyContext(bars, params, initial_cash, leverage); on_init(ctx)
Start ==
    /\ pc = "call"
    /\ ~InsufficientData
    /\ portfolio' = [cash |-> config.initial_cash, equity |-> config.initial_cash,
                     peak |-> None, drawdown |-> [num |-> 0, den |-> 1]]
    /\ position' = FlatPosition
    /\ events' = IF strategy_module.on_init
                 THEN Append(events, Event("on_init", None, 0, FlatPosition, config.initial_cash)) ELSE events
    /\ status' = "DONE"
    /\ pending_orders' = <<>>
    /\ pc' = "loop"
    /\ UNCHANGED <<bars_none, bars, strategy_module, config, has_cancel_flag,
                   has_progress_cb, cancel_requested, i, oi, trading_enabled,
                   ctx_orders, ctx_logs, last_warn, result, returned, budget,
                   queued, polls, processed, resolved, req_processed,
                   equity_seen, other_vars>>

inputs == <<bars_none, bars, strategy_module, config, has_cancel_flag,
            has_progress_cb>>

(***************************************************************************)
(* The user requests cancellation (cancel_flag() returns true from now on) *)
(***************************************************************************)
RequestCancel ==
    /\ has_cancel_flag
    /\ ~cancel_requested
    /\ pc = "call" \/ (pc = "on_bar" /\ i \in CancelPoints)
    /\ cancel_requested' = TRUE
    /\ UNCHANGED <<inputs, pc, i, oi, status, position, portfolio,
                   trading_enabled, ctx_orders, ctx_logs, pending_orders,
                   last_warn, result, returned, budget, events, queued, polls,
                   processed, resolved, req_processed,
                   equity_seen, other_vars>>

(***************************************************************************)
(* run_backtest, lines 53-70: loop head, mark to market, sample            *)
(***************************************************************************)
\* the value `for i in range(0, n - 1)` gives i next
NextI == IF i = None THEN 0 ELSE i + 1

\* the cancellation polled on every bar
PollsAt_mut_every(k) == has_cancel_flag

\* `cancel_flag and i % cancel_every == 0`: cancel_flag() is called at k
PollsAt(k) == has_cancel_flag /\ k % cancel_every = 0

\* `progress_cb and i % cancel_every == 0`
ProgressAt(k) == has_progress_cb /\ k % cancel_every = 0

\* every bar sampled, warmup bars included
InWindow_mut_all(ts) == TRUE

\* line 65: the bar is sampled into the result's time series
InWindow(ts) == ts >= config.start_ts

Sample(res, ts, pf, pos, close_price) ==
    [res EXCEPT !.equity_ts = Append(@, ts),
                !.equity = Append(@, pf.equity),
                !.drawdown = Append(@, pf.drawdown),
                !.position_size = Append(@, pos.size),
                !.price = Append(@, close_price)]

\* the break that first records the pending orders, filled at the open of the
\* bar of the break
CancelBreak_mut_flush ==
    /\ pc = "loop"
    /\ NextI < n - 1
    /\ PollsAt(NextI) /\ cancel_requested
    /\ i' = NextI
    /\ polls' = polls \cup {[i |-> NextI, ret |-> TRUE]}
    /\ status' = "CANCELED"
    /\ result' = [result EXCEPT !.orders = @ \o
          [k \in 1..Len(pending_orders) |->
              [submitted_ts |-> pending_orders[k].submitted_ts,
               side |-> pending_orders[k].side, size |-> pending_orders[k].size,
               status |-> "FILLED", reason |-> "", fill_ts |-> Bar(NextI).ts,
               fill_price |-> Bar(NextI).open, fee |-> 0]]]
    /\ resolved' = resolved \o
          [k \in 1..Len(pending_orders) |->
              [qi |-> pending_orders[k].qi, k |-> pending_orders[k].k,
               ri |-> NextI, equity |-> portfolio.equity,
               cash |-> portfolio.cash, held |-> position.size]]
    /\ pc' = "closeout"
    /\ UNCHANGED <<inputs, cancel_requested, oi, position, portfolio,
                   trading_enabled, ctx_orders, ctx_logs, pending_orders,
                   last_warn, returned, budget, events, queued,
                   processed, req_processed,
                   equity_seen, other_vars>>

\* lines 54-56: cancel_flag() returned true
CancelBreak ==
    /\ pc = "loop"
    /\ NextI < n - 1
    /\ PollsAt(NextI) /\ cancel_requested
    /\ i' = NextI
    /\ polls' = polls \cup {[i |-> NextI, ret |-> TRUE]}
    /\ status' = "CANCELED"
    /\ pc' = "closeout"
    /\ UNCHANGED <<inputs, cancel_requested, oi, position, portfolio,
                   trading_enabled, ctx_orders, ctx_logs, pending_orders,
                   last_warn, result, returned, budget, events, queued,
                   processed, resolved, req_processed,
                   equity_seen, other_vars>>

\* lines 57-72: the bar is processed up to the order loop
BarBegin ==
    /\ pc = "loop"
    /\ NextI < n - 1
    /\ ~(PollsAt(NextI) /\ cancel_requested)
    /\ i' = NextI
    /\ polls' = IF PollsAt(NextI)
                THEN polls \cup {[i |-> NextI, ret |-> FALSE]} ELSE polls
    /\ LET ts == Bar(NextI).ts
           close_price == Bar(NextI).close
           pf == mark_to_market(portfolio, position, close_price)
       IN  /\ portfolio' = pf
           /\ result' = IF InWindow(ts)
                        THEN Sample(result, ts, pf, position, close_price)
                        ELSE result
           /\ equity_seen' = Append(equity_seen, pf.equity)
    /\ events' = IF ProgressAt(NextI)
                 THEN Append(events, Event("progress_cb", NextI, n, position, portfolio.cash))
                 ELSE events
    /\ processed' = processed \cup {NextI}
    /\ oi' = 1
    /\ pc' = IF pending_orders # <<>> THEN "orders" ELSE "on_bar"
    /\ UNCHANGED <<inputs, cancel_requested, status, position, trading_enabled,
                   ctx_orders, ctx_logs, pending_orders, last_warn, returned,
                   budget, queued, resolved, req_processed, other_vars>>

\* range(0, n - 1) is exhausted; i keeps its last value
LoopExit ==
    /\ pc = "loop"
    /\ NextI >= n - 1
    /\ pc' = "closeout"
    /\ UNCHANGED <<inputs, cancel_requested, i, oi, status, position, portfolio,
                   trading_enabled, ctx_orders, ctx_logs, pending_orders,
                   last_warn, result, returned, budget, events, queued, polls,
                   processed, resolved, req_processed,
                   equity_seen, other_vars>>

(***************************************************************************)
(* run_backtest, lines 72-132: resolution of one pending order             *)
(***************************************************************************)
NewOrder(submitted_ts, side, size) ==
    [submitted_ts |-> submitted_ts, side |-> side, size |-> size,
     status |-> "", reason |-> "", fill_ts |-> None, fill_price |-> None,
     fee |-> None]

CurO == pending_orders[oi]
CurTs == Bar(i).ts

\* orders resolved at the close of the bar instead of its open
OpenPrice_mut_close == Bar(i).close

\* line 73: open_price = float(bars[i][1])
OpenPrice == Bar(i).open

\* lines 75-81: side and size, FLATTEN resolved against the position
FlattenDropped == CurO.side = "FLATTEN" /\ position.size = 0
\* FLATTEN resolved to the side of the position instead of the opposite one
OSide_mut_same ==
    IF CurO.side = "FLATTEN"
    THEN (IF position.size > 0 THEN "BUY" ELSE "SELL")
    ELSE CurO.side

OSide ==
    IF CurO.side = "FLATTEN"
    THEN (IF position.size > 0 THEN "SELL" ELSE "BUY")
    ELSE CurO.side
OSize == IF CurO.side = "FLATTEN" THEN Abs(position.size) ELSE CurO.size

\* line 84
FillPrice == compute_fill_price(OpenPrice, OSide, config.slippage_bps)

\* the margin check applied to orders that meet a flat position or scale, an
\* order against the open position always accepted
FillOk_mut_open_only ==
    \/ (position.size > 0 /\ OSide = "SELL")
    \/ (position.size < 0 /\ OSide = "BUY")
    \/ can_fill(OSize, FillPrice, portfolio.equity, config.leverage)

\* line 85
FillOk == can_fill(OSize, FillPrice, portfolio.equity, config.leverage)

\* line 93
Fee == compute_fee(OSize, FillPrice, config.commission_bps)

\* lines 83, 94-97
FilledOrder ==
    [NewOrder(CurO.submitted_ts, OSide, OSize) EXCEPT
        !.fill_ts = CurTs, !.fill_price = FillPrice, !.fee = Fee,
        !.status = "FILLED"]

\* lines 83, 87-88
RejectedOrder ==
    [NewOrder(CurO.submitted_ts, OSide, OSize) EXCEPT
        !.status = "REJECTED", !.reason = "margin"]

\* line 106
SameDirection ==
    (position.size > 0 /\ OSide = "BUY") \/ (position.size < 0 /\ OSide = "SELL")

\* history of one resolution: the request, the bar, and the equity, cash and
\* position size the order met
Audit ==
    [qi |-> CurO.qi, k |-> CurO.k, ri |-> i, equity |-> portfolio.equity,
     cash |-> portfolio.cash, held |-> position.size]

\* on_order called with the position and cash the order met, before its
\* effects are applied
OnOrder_mut_before(evs, pos, cash) ==
    IF strategy_module.on_order
    THEN Append(evs, Event("on_order", i, Len(result.orders) + 1,
                           position, portfolio.cash))
    ELSE evs

\* lines 90-91 and 131-132: `if on_order: on_order(ctx, order)`, the context
\* being in the state the statements before the call left it in
OnOrder(evs, pos, cash) ==
    IF strategy_module.on_order
    THEN Append(evs, Event("on_order", i, Len(result.orders) + 1, pos, cash))
    ELSE evs

\* the for loop over pending_orders moves on, or the order loop is over
AfterOrder ==
    /\ oi' = oi + 1
    /\ pc' = IF oi = Len(pending_orders) THEN "on_bar" ELSE "orders"

\* lines 77-79: FLATTEN while flat
DropFlatten ==
    /\ pc = "orders"
    /\ FlattenDropped
    /\ AfterOrder
    /\ UNCHANGED <<inputs, cancel_requested, i, status, position, portfolio,
                   trading_enabled, ctx_orders, ctx_logs, pending_orders,
                   last_warn, result, returned, budget, events, queued, polls,
                   processed, resolved, req_processed,
                   equity_seen, other_vars>>

\* lines 86-92: margin rejection
RejectOrder ==
    /\ pc = "orders"
    /\ ~FlattenDropped
    /\ ~FillOk
    /\ result' = [result EXCEPT !.orders = Append(@, RejectedOrder)]
    /\ resolved' = Append(resolved, Audit)
    /\ events' = OnOrder(events, position, portfolio.cash)
    /\ AfterOrder
    /\ UNCHANGED <<inputs, cancel_requested, i, status, position, portfolio,
                   trading_enabled, ctx_orders, ctx_logs, pending_orders,
                   last_warn, returned, budget, queued, polls, processed, req_processed,
                   equity_seen, other_vars>>

\* lines 93-104, 131-132: fill that opens a position
OpenFill ==
    /\ pc = "orders"
    /\ ~FlattenDropped
    /\ FillOk
    /\ position.size = 0
    /\ result' = [result EXCEPT !.orders = Append(@, FilledOrder)]
    /\ resolved' = Append(resolved, Audit)
    /\ position' = [size |-> IF OSide = "BUY" THEN OSize ELSE -OSize,
                    entry_price |-> FillPrice, entry_ts |-> CurTs]
    /\ portfolio' = [portfolio EXCEPT !.cash = @ - Fee]
    /\ events' = OnOrder(events, position', portfolio'.cash)
    /\ AfterOrder
    /\ UNCHANGED <<inputs, cancel_requested, i, status, trading_enabled,
                   ctx_orders, ctx_logs, pending_orders, last_warn, returned,
                   budget, queued, polls, processed, req_processed,
                   equity_seen, other_vars>>

\* the warning logged for every same-direction order
ScaleWarn_mut_always(logs, warned, ts) ==
    Append(logs, [level |-> "warn", msg |-> "scaling not supported in V2",
                  ts |-> ts])

\* lines 107-108: the warning, unless last_warn["scale"] is set
ScaleWarn(logs, warned, ts) ==
    IF warned THEN logs
    ELSE Append(logs, [level |-> "warn", msg |-> "scaling not supported in V2",
                       ts |-> ts])

\* the same-direction order taken off the batch before it is recorded
ScaleSkip_mut_vanish ==
    /\ pc = "orders"
    /\ ~FlattenDropped
    /\ FillOk
    /\ position.size # 0
    /\ SameDirection
    /\ ctx_logs' = ScaleWarn(ctx_logs, last_warn, CurTs)
    /\ last_warn' = TRUE
    /\ AfterOrder
    /\ UNCHANGED <<inputs, cancel_requested, i, status, position, portfolio,
                   trading_enabled, ctx_orders, pending_orders, returned,
                   budget, events, queued, polls, processed, req_processed,
                   result, resolved, equity_seen, other_vars>>

\* lines 93-98, 106-110: same direction as the open position
ScaleSkip ==
    /\ pc = "orders"
    /\ ~FlattenDropped
    /\ FillOk
    /\ position.size # 0
    /\ SameDirection
    /\ result' = [result EXCEPT !.orders = Append(@, FilledOrder)]
    /\ resolved' = Append(resolved, Audit)
    /\ ctx_logs' = ScaleWarn(ctx_logs, last_warn, CurTs)
    /\ last_warn' = TRUE
    /\ AfterOrder
    /\ UNCHANGED <<inputs, cancel_requested, i, status, position, portfolio,
                   trading_enabled, ctx_orders, pending_orders, returned,
                   budget, events, queued, polls, processed, req_processed,
                   equity_seen, other_vars>>

\* the bars held without the floor of one
BarsHeld_mut_floor(ts, entry_ts) ==
    (ts - entry_ts) \div Max(1, Bar(1).ts - Bar(0).ts)

\* line 125
BarsHeld(ts, entry_ts) ==
    Max(1, (ts - entry_ts) \div Max(1, Bar(1).ts - Bar(0).ts))

\* lines 111-126
ClosingTrade ==
    LET entry_price == OrElse(position.entry_price, FillPrice)
        entry_ts == OrElse(position.entry_ts, CurTs)
        pnl == (FillPrice - entry_price) * position.size
    IN  [side |-> IF position_side(position) = "None" THEN "LONG"
                  ELSE position_side(position),
         size |-> Abs(position.size),
         entry_ts |-> entry_ts, entry_price |-> entry_price,
         exit_ts |-> CurTs, exit_price |-> FillPrice,
         pnl |-> pnl - Fee, fee_total |-> Fee,
         bars_held |-> BarsHeld(CurTs, entry_ts)]

\* lines 93-98, 111-132: fill that closes the position
CloseFill ==
    /\ pc = "orders"
    /\ ~FlattenDropped
    /\ FillOk
    /\ position.size # 0
    /\ ~SameDirection
    /\ result' = [result EXCEPT !.orders = Append(@, FilledOrder),
                                !.trades = Append(@, ClosingTrade)]
    /\ resolved' = Append(resolved, Audit)
    /\ portfolio' = [portfolio EXCEPT
          !.cash = @ + (FillPrice - OrElse(position.entry_price, FillPrice))
                          * position.size - Fee]
    /\ position' = close_position(position)
    /\ events' =
          LET e1 == IF strategy_module.on_trade
                    THEN Append(events, Event("on_trade", i, Len(result.trades) + 1,
                                          position, portfolio'.cash))
                    ELSE events
          IN  OnOrder(e1, position', portfolio'.cash)
    /\ AfterOrder
    /\ UNCHANGED <<inputs, cancel_requested, i, status, trading_enabled,
                   ctx_orders, ctx_logs, pending_orders, last_warn, returned,
                   budget, queued, polls, processed, req_processed,
                   equity_seen, other_vars>>

(***************************************************************************)
(* run_backtest, lines 134-143: on_bar and the drain of the order queue    *)
(***************************************************************************)
\* the bar at start_ts itself treated as warmup
Warmup_mut_inclusive(ts) == ts <= config.start_ts

\* line 134
Warmup(ts) == ts < config.start_ts

\* ctx.buy / ctx.sell / ctx.flatten: the requests are queued with the bar
\* they were submitted on, and ignored while trading is disabled
CtxSubmit(queue, enabled, batch, idx) ==
    IF enabled
    THEN queue \o [k \in 1..Len(batch) |->
                      [side |-> batch[k].side, size |-> batch[k].size,
                       submitted_ts |-> Bar(idx).ts, qi |-> idx,
                       k |-> Len(queue) + k]]
    ELSE queue

\* ctx.pop_orders(): <<the orders returned, the queue left behind>>
pop_orders(queue) == <<queue, <<>>>>

\* trading_enabled while on_bar runs (lines 134-141)
EnabledDuring(ts) == IF Warmup(ts) THEN FALSE ELSE trading_enabled

OnBar ==
    /\ pc = "on_bar"
    /\ \E batch \in (IF strategy_module.on_bar /\ i \in strategy_module.active
                     THEN Batches(strategy_module.menu, budget) ELSE {<<>>}) :
          LET en == EnabledDuring(CurTs)
              queue == CtxSubmit(ctx_orders, en, batch, i)
              popped == pop_orders(queue)
          IN  /\ pending_orders' = popped[1]
              /\ ctx_orders' = popped[2]
              /\ queued' = queued \cup {queue[k] : k \in 1..Len(queue)}
              /\ budget' = budget - Len(batch)
              /\ events' = IF strategy_module.on_bar
                           THEN Append(events, Event("on_bar", i, IF en THEN 1 ELSE 0,
                                                position, portfolio.cash))
                           ELSE events
    /\ trading_enabled' = IF Warmup(CurTs) THEN TRUE ELSE trading_enabled
    /\ req_processed' = IF cancel_requested THEN req_processed + 1 ELSE req_processed
    /\ pc' = "loop"
    /\ UNCHANGED <<inputs, cancel_requested, i, oi, status, position, portfolio,
                   ctx_logs, last_warn, result, returned, polls, processed,
                   resolved, equity_seen, other_vars>>

(***************************************************************************)
(* run_backtest, lines 145-183: forced close-out                           *)
(***************************************************************************)
\* the forced close priced as a market fill, the close moved by the slippage
ForcedTrade_mut_slipped(pos, k) ==
    LET close_price == compute_fill_price(Bar(k).close,
                                          IF pos.size > 0 THEN "SELL" ELSE "BUY",
                                          config.slippage_bps)
        fee == compute_fee(Abs(pos.size), close_price, config.commission_bps)
        pnl == (close_price - OrElse(pos.entry_price, close_price)) * pos.size
    IN  [side |-> IF position_side(pos) = "None" THEN "LONG" ELSE position_side(pos),
         size |-> Abs(pos.size),
         entry_ts |-> OrElse(pos.entry_ts, Bar(k).ts),
         entry_price |-> OrElse(pos.entry_price, close_price),
         exit_ts |-> Bar(k).ts, exit_price |-> close_price,
         pnl |-> pnl - fee, fee_total |-> fee, bars_held |-> 1]

\* lines 148-162 and 167-181: the Trade of a forced close at bar k
ForcedTrade(pos, k) ==
    LET close_price == Bar(k).close
        fee == compute_fee(Abs(pos.size), close_price, config.commission_bps)
        pnl == (close_price - OrElse(pos.entry_price, close_price)) * pos.size
    IN  [side |-> IF position_side(pos) = "None" THEN "LONG" ELSE position_side(pos),
         size |-> Abs(pos.size),
         entry_ts |-> OrElse(pos.entry_ts, Bar(k).ts),
         entry_price |-> OrElse(pos.entry_price, close_price),
         exit_ts |-> Bar(k).ts, exit_price |-> close_price,
         pnl |-> pnl - fee, fee_total |-> fee, bars_held |-> 1]

\* lines 149-151, 164 and 168-170, 183
ForceClose(k) ==
    LET t == ForcedTrade(position, k)
    IN  /\ portfolio' = [portfolio EXCEPT !.cash = @ + t.pnl]
        /\ result' = [result EXCEPT !.trades = Append(@, t)]
        /\ position' = close_position(position)
        /\ events' = Append(events, Event("close_out", k, Len(result.trades) + 1,
                                         position, portfolio'.cash))

\* line 146: i = min(i, n - 1); line 148: bars[i]
CancelCloseIndex == Min(i, n - 1)

\* the close-out priced at the last bar the loop visited
FinishCloseIndex_mut_loopvar == i

\* line 167: bars[-1]
FinishCloseIndex == n - 1

\* lines 145-164
CancelCloseOut ==
    /\ pc = "closeout"
    /\ status = "CANCELED"
    /\ i' = CancelCloseIndex
    /\ IF position.size # 0
       THEN ForceClose(CancelCloseIndex)
       ELSE UNCHANGED <<portfolio, result, position, events>>
    /\ pc' = "finish"
    /\ UNCHANGED <<inputs, cancel_requested, oi, status, trading_enabled,
                   ctx_orders, ctx_logs, pending_orders, last_warn, returned,
                   budget, queued, polls, processed, resolved, req_processed,
                   equity_seen, other_vars>>

\* lines 165-183
FinishCloseOut ==
    /\ pc = "closeout"
    /\ status # "CANCELED"
    /\ IF config.close_on_finish /\ position.size # 0
       THEN ForceClose(FinishCloseIndex)
       ELSE UNCHANGED <<portfolio, result, position, events>>
    /\ pc' = "finish"
    /\ UNCHANGED <<inputs, cancel_requested, i, oi, status, trading_enabled,
                   ctx_orders, ctx_logs, pending_orders, last_warn, returned,
                   budget, queued, polls, processed, resolved, req_processed,
                   equity_seen, other_vars>>

(***************************************************************************)
(* run_backtest, lines 185-209: logs, on_finish, return                    *)
(***************************************************************************)
\* on_finish skipped when the run was canceled
OnFinishCalled_mut_done_only == strategy_module.on_finish /\ status = "DONE"

\* lines 207-208: `if on_finish:`
OnFinishCalled == strategy_module.on_finish

Finish ==
    /\ pc = "finish"
    /\ pending_orders' = <<>>
    /\ result' = [result EXCEPT !.logs = @ \o ctx_logs]
    /\ events' = IF OnFinishCalled
                 THEN Append(events, Event("on_finish", i, 0, position, portfolio.cash))
                 ELSE events
    /\ returned' = TRUE
    /\ pc' = "done"
    /\ UNCHANGED <<inputs, cancel_requested, i, oi, status, position, portfolio,
                   trading_enabled, ctx_orders, ctx_logs, last_warn, budget,
                   queued, polls, processed, resolved, req_processed,
                   equity_seen, other_vars>>

Next ==
    \/ RequestCancel
    \/ RaiseNotEnough
    \/ Start
    \/ CancelBreak
    \/ BarBegin
    \/ LoopExit
    \/ DropFlatten
    \/ RejectOrder
    \/ OpenFill
    \/ ScaleSkip
    \/ CloseFill
    \/ OnBar
    \/ CancelCloseOut
    \/ FinishCloseOut
    \/ Finish

\* short runs: every order request on every bar
Spec == Init /\ [][Next]_vars

\* runs longer than the cancellation cadence
SpecLong == InitLong /\ [][Next]_vars

(***************************************************************************)
(* Properties                                                              *)
(***************************************************************************)
Orders == result.orders
Trades == result.trades
OrderIdx == 1..Len(Orders)

\* the slippage-adjusted price of a fill at open price p, stated directly
SlippedPrice(p, side) ==
    IF side = "BUY" THEN (p * (BpsDen + config.slippage_bps)) \div BpsDen
    ELSE (p * (BpsDen - config.slippage_bps)) \div BpsDen

\* C1: every Order record comes from an order queued during on_bar(i) and is
\* resolved exactly once, during iteration i+1; a FILLED record has the
\* timestamp of bar i+1 as fill_ts and the slippage-adjusted open of bar i+1
\* as fill_price.
C1_NextBarOpenFill ==
    /\ Len(resolved) = Len(Orders)
    /\ \A a \in OrderIdx :
          LET o == Orders[a]
              h == resolved[a]
          IN  /\ \E q \in queued : q.qi = h.qi /\ q.k = h.k
              /\ h.ri = h.qi + 1
              /\ h.ri <= n - 1
              /\ \A b \in OrderIdx :
                    (resolved[b].qi = h.qi /\ resolved[b].k = h.k) => b = a
              /\ o.status \in {"FILLED", "REJECTED"}
              /\ o.status = "FILLED" =>
                    /\ o.fill_ts = Bar(h.qi + 1).ts
                    /\ o.fill_price = SlippedPrice(Bar(h.qi + 1).open, o.side)

\* a filled order whose bar has an open different from its close and from
\* the close of the bar it was queued on
C1_Witness ==
    \E a \in OrderIdx :
        /\ Orders[a].status = "FILLED"
        /\ Bar(resolved[a].ri).open # Bar(resolved[a].ri).close
        /\ Bar(resolved[a].ri).open # Bar(resolved[a].qi).close
        /\ config.slippage_bps > 0

\* the entries of the order ledger that belong to the queued order q
RecordsOf(q) == {a \in OrderIdx : resolved[a].qi = q.qi /\ resolved[a].k = q.k}

\* C2: in a run that is not canceled, every BUY or SELL queued during
\* on_bar(n-2) with trading enabled has an Order record, resolved at bar n-1,
\* when the run has returned.
C2_LastBarIsFillBar ==
    (pc = "done" /\ status = "DONE") =>
        \A q \in queued :
            (q.qi = n - 2 /\ q.side # "FLATTEN") =>
                \E a \in RecordsOf(q) :
                    /\ resolved[a].ri = n - 1
                    /\ Orders[a].status \in {"FILLED", "REJECTED"}

\* the price at which the order behind ledger entry a was tried
TriedPrice(a) == SlippedPrice(Bar(resolved[a].ri).open, Orders[a].side)

\* C3 (ledger): a FILLED order needed no more margin than the equity at the
\* time it was resolved; a REJECTED order needed strictly more and has
\* reason "margin".
C3_Ledger ==
    \A a \in OrderIdx :
        LET o == Orders[a]
            required == margin_required(o.size, TriedPrice(a), config.leverage)
        IN  /\ o.status = "FILLED" =>
                /\ o.fill_price = TriedPrice(a)
                /\ required <= resolved[a].equity
            /\ o.status = "REJECTED" =>
                /\ required > resolved[a].equity
                /\ o.reason = "margin"

\* C3 (step): the step that records a REJECTED order changes neither cash,
\* equity, position nor the trade ledger, and the loop over the pending
\* orders goes on with the next one.
C3_RejectStep ==
    (Len(result'.orders) = Len(Orders) + 1
        /\ result'.orders[Len(Orders) + 1].status = "REJECTED") =>
            /\ portfolio' = portfolio
            /\ position' = position
            /\ result'.trades = Trades
            /\ pending_orders' = pending_orders
            /\ oi' = oi + 1
            /\ pc' = IF oi < Len(pending_orders) THEN "orders" ELSE "on_bar"

\* C3: margin conservation in run_backtest.
C3_MarginConservation == [](C3_Ledger) /\ [][C3_RejectStep]_vars

\* a rejected order was followed by the resolution of a filled one of the
\* same batch
C3_Witness ==
    \E a \in OrderIdx :
        /\ Orders[a].status = "REJECTED"
        /\ a + 1 \in OrderIdx
        /\ Orders[a + 1].status = "FILLED"
        /\ resolved[a + 1].ri = resolved[a].ri

\* the ledger holds a round trip and nothing else: a filled BUY of size S
\* that opened the position from flat, then on a later bar a filled SELL
\* of size S
RoundTrip ==
    /\ Len(Orders) = 2
    /\ Orders[1].side = "BUY" /\ Orders[1].status = "FILLED"
    /\ Orders[2].side = "SELL" /\ Orders[2].status = "FILLED"
    /\ Orders[1].size = Orders[2].size
    /\ Orders[1].size > 0
    /\ Orders[1].fill_ts < Orders[2].fill_ts

\* the round trip without the pnl: one LONG trade of size S, flat afterwards
RoundTripShape ==
    /\ Len(Trades) = 1
    /\ Trades[1].side = "LONG"
    /\ Trades[1].size = Orders[1].size
    /\ Trades[1].entry_price = Orders[1].fill_price
    /\ Trades[1].exit_price = Orders[2].fill_price
    /\ position = FlatPosition

\* C4: after a round trip there is exactly one Trade (LONG, size S), its pnl
\* is (exit_price - entry_price) * S minus the fees of the round trip (the
\* fee of the BUY and the fee of the SELL), and the position is flat.
C4_RoundTrip ==
    RoundTrip =>
        /\ RoundTripShape
        /\ Trades[1].pnl =
              (Trades[1].exit_price - Trades[1].entry_price) * Orders[1].size
                  - (Orders[1].fee + Orders[2].fee)

\* what the code does: only the fee of the closing fill is taken off
C4_ExitFeeOnly ==
    RoundTrip =>
        /\ RoundTripShape
        /\ Trades[1].pnl =
              (Trades[1].exit_price - Trades[1].entry_price) * Orders[1].size
                  - Orders[2].fee
        /\ Trades[1].fee_total = Orders[2].fee

\* the last bar that was marked to market and passed to on_bar
LastProcessed == CHOOSE k \in processed : \A m \in processed : m <= k

\* the run was canceled and the close-out step has just been taken
JustCanceled == pc = "finish" /\ status = "CANCELED"

ForcedCloses == {e \in 1..Len(events) : events[e].fn = "close_out"}

\* C5: a canceled run returns CANCELED; if a position was open, exactly one
\* Trade was appended by the close-out, its exit_price is the close of the
\* last processed bar, its pnl is (exit_price - entry_price) * size - fee
\* and the position is flat; if the position was flat, no Trade was appended.
C5_CancelCloseOut ==
    JustCanceled =>
        /\ position = FlatPosition
        /\ Cardinality(ForcedCloses) <= 1
        /\ \A e \in ForcedCloses :
              LET t == Trades[events[e].arg]
                  pos == events[e].pos
              IN  /\ e = Len(events)
                  /\ events[e].arg = Len(Trades)
                  /\ pos.size # 0
                  /\ t.exit_price = Bar(LastProcessed).close
                  /\ t.pnl = (t.exit_price - pos.entry_price) * pos.size - t.fee_total
                  /\ t.fee_total = (Abs(pos.size) * t.exit_price
                                        * config.commission_bps) \div BpsDen

\* what the code does: the close-out uses the bar at which the cancellation
\* was observed, which was neither marked to market nor passed to on_bar
C5_ClosesAtCancelBar ==
    JustCanceled =>
        /\ position = FlatPosition
        /\ Cardinality(ForcedCloses) <= 1
        /\ i \notin processed
        /\ \A e \in ForcedCloses :
              LET t == Trades[events[e].arg]
                  pos == events[e].pos
              IN  /\ e = Len(events)
                  /\ events[e].arg = Len(Trades)
                  /\ pos.size # 0
                  /\ t.exit_price = Bar(i).close
                  /\ t.exit_ts = Bar(i).ts
                  /\ t.pnl = (t.exit_price - pos.entry_price) * pos.size - t.fee_total

\* the calls that belong to the processing of a bar
BarEvents ==
    {e \in 1..Len(events) :
        events[e].fn \in {"progress_cb", "on_bar", "on_order", "on_trade"}}

PolledTrue == {p \in polls : p.ret}

\* C6: cancel_flag() is called only at indices that are multiples of 100, and
\* at each of them the replay reaches; the first true answer at index i stops
\* the replay there: no bar with index >= i is marked, sampled, resolved,
\* reported or passed to on_bar, and the status is CANCELED; without a true
\* answer the status is DONE.  At most 100 bars are processed after the
\* request was raised.
C6_CooperativeCancel ==
    /\ \A p \in polls : p.i % 100 = 0
    /\ \A k \in processed : (has_cancel_flag /\ k % 100 = 0) =>
           [i |-> k, ret |-> FALSE] \in polls
    /\ Cardinality(PolledTrue) <= 1
    /\ \A p \in PolledTrue :
           /\ status = "CANCELED"
           /\ pc \in {"closeout", "finish", "done"}
           /\ \A k \in processed : k < p.i
           /\ \A q \in polls : q.i <= p.i
           /\ \A e \in BarEvents : events[e].i < p.i
           /\ \A a \in OrderIdx : resolved[a].ri < p.i
           /\ Len(result.equity_ts) <= p.i
    /\ (status = "CANCELED") = (PolledTrue # {})
    /\ (pc = "done" /\ PolledTrue = {}) => status = "DONE"
    /\ req_processed <= 100

\* a run that returned CANCELED after a true poll at index 100, and before
\* that processed bars after the request
C6_Witness ==
    /\ pc = "done"
    /\ status = "CANCELED"
    /\ [i |-> 100, ret |-> TRUE] \in polls
    /\ [i |-> 0, ret |-> FALSE] \in polls
    /\ req_processed = 100

\* a request raised after the last poll: the run returns DONE
C6_WitnessLate == pc = "done" /\ status = "DONE" /\ cancel_requested

\* C7 (step): the step that leaves the close-out of a run that ended DONE.
\* With close_on_finish and an open position it appends exactly one Trade,
\* whose exit_ts and exit_price are the timestamp and close of the final bar
\* of the series, and leaves the position flat; without close_on_finish it
\* appends no Trade and leaves the position as it was.
C7_FinishStep ==
    (pc = "closeout" /\ pc' = "finish" /\ status = "DONE") =>
        /\ status' = "DONE"
        /\ (config.close_on_finish /\ position.size # 0) =>
              /\ Len(result'.trades) = Len(Trades) + 1
              /\ \A k \in 1..Len(Trades) : result'.trades[k] = Trades[k]
              /\ result'.trades[Len(Trades) + 1].exit_ts = bars[Len(bars)].ts
              /\ result'.trades[Len(Trades) + 1].exit_price = bars[Len(bars)].close
              /\ result'.trades[Len(Trades) + 1].size = Abs(position.size)
              /\ position' = FlatPosition
        /\ ~config.close_on_finish =>
              /\ result'.trades = Trades
              /\ position' = position
        /\ position.size = 0 => result'.trades = Trades

\* C7: normal-completion close-out.
C7_FinishCloseOut == [][C7_FinishStep]_vars

\* a run that ended DONE with close_on_finish closed an open position
C7_Witness ==
    /\ pc = "finish"
    /\ status = "DONE"
    /\ config.close_on_finish
    /\ Len(events) > 0
    /\ Last(events).fn = "close_out"
    /\ Last(events).pos.size # 0
    /\ position = FlatPosition

\* a run that ended DONE without close_on_finish kept its open position
C7_WitnessKept ==
    pc = "finish" /\ status = "DONE" /\ ~config.close_on_finish /\ position.size # 0

CallsOf(fn) == {e \in 1..Len(events) : events[e].fn = fn}

\* C8: for a strategy that defines on_init, on_bar and on_finish, on_init is
\* called exactly once, before every on_bar; on_finish is called exactly once
\* when the run returns, DONE or CANCELED, after every on_bar and after the
\* forced close-out, and is not called before.
C8_CallbackLifecycle ==
    (strategy_module.on_init /\ strategy_module.on_bar /\ strategy_module.on_finish) =>
        /\ pc \in {"call", "raised"} => events = <<>>
        /\ pc \notin {"call", "raised"} => CallsOf("on_init") = {1}
        /\ pc # "done" => CallsOf("on_finish") = {}
        /\ pc = "done" =>
              /\ status \in {"DONE", "CANCELED"}
              /\ CallsOf("on_finish") = {Len(events)}
              /\ (status = "CANCELED" \/ config.close_on_finish) =>
                    Last(events).pos = FlatPosition
              /\ \A e \in CallsOf("on_bar") \cup ForcedCloses :
                    1 < e /\ e < Len(events)

\* a canceled run whose open position was force-closed has returned
C8_Witness ==
    /\ pc = "done"
    /\ status = "CANCELED"
    /\ ForcedCloses # {}
    /\ CallsOf("on_bar") # {}
    /\ CallsOf("on_finish") # {}

\* InsufficientData as the spec's callers see it: no bars, or fewer than 2
NotEnoughBars == bars_none \/ Len(bars) < 2

\* C9: with no bars or fewer than 2 bars run_backtest raises at once: no
\* callback is called, nothing is returned and no status is set.
C9_InsufficientData ==
    NotEnoughBars =>
        /\ pc \in {"call", "raised"}
        /\ events = <<>>
        /\ ~returned
        /\ status = "None"
        /\ result.orders = <<>> /\ result.trades = <<>> /\ result.equity_ts = <<>>
        /\ polls = {} /\ processed = {}

\* the call with a single bar has raised
C9_Witness == pc = "raised" /\ ~bars_none /\ Len(bars) = 1

\* the call with bars = None has raised
C9_WitnessNone == pc = "raised" /\ bars_none

\* bars whose iteration is over
BarsDone ==
    {k \in processed : k < i \/ pc \in {"loop", "closeout", "finish", "done"}}

\* the first bar of the series with a timestamp >= start_ts, if there is one
FirstInWindow ==
    {k \in 0..(n - 1) :
        /\ Bar(k).ts >= config.start_ts
        /\ \A m \in 0..(k - 1) : Bar(m).ts < config.start_ts}

\* requests the strategy made so far, and those the context ignored
Submitted == MaxOrders - budget
Ignored == Submitted - Cardinality(queued)

\* C10: on_bar is called on every bar, with trading disabled exactly on the
\* bars whose timestamp is below start_ts; what it submits there is ignored:
\* no pending order, no Order record, no fill, no position change; trading is
\* enabled again afterwards, and no order is filled at or before the first
\* in-window bar.
C10_Warmup ==
    /\ trading_enabled
    /\ \A k \in BarsDone : \E e \in CallsOf("on_bar") : events[e].i = k
    /\ \A e \in CallsOf("on_bar") :
          events[e].arg = IF Bar(events[e].i).ts < config.start_ts THEN 0 ELSE 1
    /\ \A q \in queued : Bar(q.qi).ts >= config.start_ts
    /\ \A k \in 1..Len(pending_orders) : Bar(pending_orders[k].qi).ts >= config.start_ts
    /\ \A a \in OrderIdx :
          /\ Bar(resolved[a].qi).ts >= config.start_ts
          /\ \A k \in FirstInWindow :
                /\ resolved[a].ri > k
                /\ Orders[a].status = "FILLED" => Orders[a].fill_ts > Bar(k).ts
    /\ (\A k \in processed : \A f \in FirstInWindow : k <= f) =>
          /\ position = FlatPosition
          /\ Orders = <<>>
          /\ Trades = <<>>
          /\ pc \notin {"call", "raised"} => portfolio.cash = config.initial_cash

\* a returned run in which requests made during warmup were ignored and a
\* later request was filled
C10_Witness ==
    /\ pc = "done"
    /\ Ignored > 0
    /\ \E e \in CallsOf("on_bar") : events[e].arg = 0
    /\ \E a \in OrderIdx : Orders[a].status = "FILLED"

(***************************************************************************)
(* The result's time series                                                *)
(***************************************************************************)
SeriesLen == Len(result.equity_ts)

\* the five lists have one length and equity_ts is strictly increasing
SeriesParallel ==
    /\ Len(result.equity) = SeriesLen
    /\ Len(result.drawdown) = SeriesLen
    /\ Len(result.position_size) = SeriesLen
    /\ Len(result.price) = SeriesLen
    /\ \A a \in 1..(SeriesLen - 1) : result.equity_ts[a] < result.equity_ts[a + 1]

SeriesTs == {result.equity_ts[a] : a \in 1..SeriesLen}

\* C11 as stated: the five lists are parallel, equity_ts is strictly
\* increasing, and on return there is exactly one point for every bar of the
\* input series whose timestamp is >= config.start_ts, none for warmup bars.
C11_OnePointPerInWindowBar ==
    /\ SeriesParallel
    /\ returned =>
          SeriesTs = {Bar(k).ts : k \in {m \in 0..(n - 1) : Bar(m).ts >= config.start_ts}}

\* the series as they stand in any one state
C11_SeriesState ==
    /\ SeriesParallel
    /\ SeriesTs = {Bar(k).ts : k \in {m \in processed : Bar(m).ts >= config.start_ts}}
    /\ \A a \in 1..SeriesLen : \A k \in processed :
          result.equity_ts[a] = Bar(k).ts => result.price[a] = Bar(k).close
    /\ returned =>
          processed = IF status = "DONE" THEN 0..(n - 2) ELSE 0..(i - 1)

\* a step only appends to a series: a recorded point is never changed
C11_SeriesStep ==
    /\ Len(result.equity_ts) <= Len(result'.equity_ts)
    /\ SubSeq(result'.equity_ts, 1, Len(result.equity_ts)) = result.equity_ts
    /\ SubSeq(result'.equity, 1, Len(result.equity)) = result.equity
    /\ SubSeq(result'.price, 1, Len(result.price)) = result.price

\* C11 amended: the five lists are parallel, equity_ts is strictly
\* increasing, and at every point, so also on return, there is exactly one
\* point for every processed bar whose timestamp is >= config.start_ts and
\* none for any other bar, and a point once recorded stays as it is; the processed bars of a returned run are the bars
\* 0..n-2 when it is DONE and the bars before the cancel index when it is
\* CANCELED, so the final bar of the series never has a point.
C11_TimeSeries == [](C11_SeriesState) /\ [][C11_SeriesStep]_vars

\* a returned run with a warmup bar left out and two bars sampled
C11_Witness ==
    /\ returned
    /\ status = "DONE"
    /\ config.start_ts > Bar(0).ts
    /\ SeriesLen >= 2

(***************************************************************************)
(* FLATTEN                                                                 *)
(***************************************************************************)
\* the request, as the strategy made it, behind the a-th Order record
RequestOf(a) ==
    CHOOSE q \in queued : q.qi = resolved[a].qi /\ q.k = resolved[a].k

\* C12 (step): the step that takes a pending FLATTEN off the batch.  With the
\* position flat at that moment nothing is recorded and no callback runs;
\* with a long position one Order, a SELL of the position's size, is
\* appended, with a short one a BUY of the position's absolute size.
C12_FlattenStep ==
    (pc = "orders" /\ CurO.side = "FLATTEN" /\ oi' = oi + 1) =>
        IF position.size = 0
        THEN /\ result' = result
             /\ events' = events
             /\ resolved' = resolved
             /\ position' = position
             /\ portfolio' = portfolio
        ELSE /\ Len(result'.orders) = Len(result.orders) + 1
             /\ SubSeq(result'.orders, 1, Len(result.orders)) = result.orders
             /\ Last(result'.orders).side =
                   (IF position.size > 0 THEN "SELL" ELSE "BUY")
             /\ Last(result'.orders).size = Abs(position.size)
             /\ Last(result'.orders).size > 0

\* C12: a pending FLATTEN is resolved against the position as it stands at
\* that moment of the resolution loop: long gives a SELL, short a BUY, both
\* of size |position.size|; flat gives no Order record and no on_order call.
C12_FlattenResolution == [][C12_FlattenStep]_vars

\* a FLATTEN recorded as a SELL right after a BUY of the same batch opened
\* the position, the position having been flat when the bar began
C12_Witness ==
    \E a \in OrderIdx :
        /\ a > 1
        /\ RequestOf(a).side = "FLATTEN"
        /\ Orders[a].side = "SELL" /\ Orders[a].status = "FILLED"
        /\ resolved[a - 1].ri = resolved[a].ri
        /\ Orders[a - 1].side = "BUY" /\ Orders[a - 1].status = "FILLED"
        /\ \A b \in OrderIdx : resolved[b].ri = resolved[a].ri => b >= a - 1
        /\ Trades # <<>> /\ Last(Trades).entry_ts = Orders[a].fill_ts

\* a FLATTEN that met a flat position was dropped: the batch is over and the
\* ledger is empty
C12_WitnessDropped ==
    /\ pc = "on_bar"
    /\ pending_orders # <<>>
    /\ \A k \in 1..Len(pending_orders) : pending_orders[k].side = "FLATTEN"
    /\ Orders = <<>>

(***************************************************************************)
(* Orders in the direction of the open position                            *)
(***************************************************************************)
\* the step that takes such an order off the batch: a BUY while long or a
\* SELL while short whose margin requirement the equity covers
ScaleCase ==
    /\ pc = "orders"
    /\ oi' = oi + 1
    /\ \/ position.size > 0 /\ CurO.side = "BUY"
       \/ position.size < 0 /\ CurO.side = "SELL"
    /\ margin_required(CurO.size,
                       SlippedPrice(Bar(i).open, CurO.side),
                       config.leverage) <= portfolio.equity

\* C13 as stated: an order in the direction of the open position that passes
\* the margin check leaves no Order record, neither FILLED nor REJECTED.
C13_ScaleVanishes == [][ScaleCase => result'.orders = result.orders]_vars

\* C13 (step, amended): such an order leaves exactly one Order record, which
\* says FILLED and carries the bar's timestamp, the slippage-adjusted open
\* and the fee as if the fill had happened.
C13_ScaleStep ==
    ScaleCase =>
        /\ Len(result'.orders) = Len(result.orders) + 1
        /\ SubSeq(result'.orders, 1, Len(result.orders)) = result.orders
        /\ LET o == Last(result'.orders)
           IN  /\ o.status = "FILLED" /\ o.reason = ""
               /\ o.side = CurO.side /\ o.size = CurO.size
               /\ o.submitted_ts = CurO.submitted_ts
               /\ o.fill_ts = Bar(i).ts
               /\ o.fill_price = SlippedPrice(Bar(i).open, CurO.side)
               /\ o.fee = (CurO.size * o.fill_price * config.commission_bps) \div BpsDen

\* C13 amended: the order stays in the ledger as a FILLED record.
C13_ScaleRecorded == [][C13_ScaleStep]_vars

\* two BUYs recorded FILLED one after the other with no trade between them:
\* the second met the long position the first had opened
C13_Witness ==
    /\ last_warn
    /\ \E a \in OrderIdx :
          /\ a > 1
          /\ Orders[a].status = "FILLED" /\ Orders[a].side = "BUY"
          /\ Orders[a - 1].status = "FILLED" /\ Orders[a - 1].side = "BUY"
          /\ Orders[a].fee > 0
          /\ Trades = <<>>

ScaleWarnings(logs) ==
    {k \in 1..Len(logs) : logs[k].msg = "scaling not supported in V2"}

\* C14 (step): the step that takes a same-direction order off the batch
\* leaves position, cash, equity and the trade ledger as they were, runs no
\* callback, and hands over to the next pending order of the bar if there is
\* one; the warning is set.
C14_ScaleStep ==
    ScaleCase =>
        /\ position' = position
        /\ portfolio' = portfolio
        /\ result'.trades = result.trades
        /\ events' = events
        /\ pending_orders' = pending_orders
        /\ last_warn'
        /\ IF oi < Len(pending_orders) THEN pc' = "orders" ELSE pc' = "on_bar"

\* C14 (state): the scaling warning is in the context's log once if such an
\* order occurred and not at all otherwise, the returned logs hold it as
\* often, and when the batch of a bar is over every BUY or SELL of the batch
\* has its Order record.
C14_ScaleState ==
    /\ Cardinality(ScaleWarnings(ctx_logs)) = (IF last_warn THEN 1 ELSE 0)
    /\ returned => Cardinality(ScaleWarnings(result.logs)) = (IF last_warn THEN 1 ELSE 0)
    /\ pc = "on_bar" =>
          \A k \in 1..Len(pending_orders) :
              pending_orders[k].side # "FLATTEN" =>
                  \E a \in OrderIdx : /\ resolved[a].qi = pending_orders[k].qi
                                      /\ resolved[a].k = pending_orders[k].k

\* C14: processing a same-direction order against an open position changes
\* neither the position nor cash nor the trade ledger (no fee is charged),
\* the remaining pending orders of the bar are still processed, and the
\* scaling warning is logged exactly once per run however many such orders
\* occur.
C14_ScaleFrame == [](C14_ScaleState) /\ [][C14_ScaleStep]_vars

\* a returned run with two same-direction orders (three BUYs, all recorded
\* FILLED) and a single warning
C14_Witness ==
    /\ returned
    /\ Len(Orders) = 3
    /\ \A a \in OrderIdx : Orders[a].side = "BUY" /\ Orders[a].status = "FILLED"
    /\ Cardinality(ScaleWarnings(result.logs)) = 1

\* a same-direction order followed, in the same batch, by the order that
\* closed the position
C14_WitnessContinues ==
    \E a \in OrderIdx :
        /\ a > 2
        /\ resolved[a].ri = resolved[a - 1].ri
        /\ Orders[a - 1].side = "BUY" /\ Orders[a - 1].status = "FILLED"
        /\ Orders[a - 2].side = "BUY" /\ Orders[a - 2].status = "FILLED"
        /\ Orders[a].side = "SELL" /\ Orders[a].status = "FILLED"
        /\ Len(Trades) = 1 /\ Trades[1].exit_ts = Orders[a].fill_ts

(***************************************************************************)
(* on_order and on_trade                                                   *)
(***************************************************************************)
\* the a-th Order record met a position in its own direction
Skipped(a) ==
    /\ Orders[a].status = "FILLED"
    /\ \/ resolved[a].held > 0 /\ Orders[a].side = "BUY"
       \/ resolved[a].held < 0 /\ Orders[a].side = "SELL"

Opened(a) == Orders[a].status = "FILLED" /\ resolved[a].held = 0

Closed(a) == Orders[a].status = "FILLED" /\ resolved[a].held # 0 /\ ~Skipped(a)

OnOrderCalls(a) == {e \in CallsOf("on_order") : events[e].arg = a}

\* the on_order calls made so far against the Order records
C15_OnOrderState ==
    /\ \A e \in CallsOf("on_order") :
          /\ events[e].arg \in OrderIdx
          /\ events[e].i = resolved[events[e].arg].ri
    /\ \A e \in CallsOf("on_trade") :
          /\ events[e].arg \in 1..Len(Trades)
          /\ e < Len(events) /\ events[e + 1].fn = "on_order"
          /\ Closed(events[e + 1].arg)
    /\ \A a \in OrderIdx :
          LET o == Orders[a]
              h == resolved[a]
              calls == OnOrderCalls(a)
          IN  /\ Cardinality(calls) = (IF Skipped(a) THEN 0 ELSE 1)
              /\ \A e \in calls :
                    /\ o.status = "REJECTED" =>
                          /\ events[e].pos.size = h.held
                          /\ events[e].cash = h.cash
                    /\ Opened(a) =>
                          /\ events[e].pos =
                                [size |-> IF o.side = "BUY" THEN o.size ELSE -o.size,
                                 entry_price |-> o.fill_price,
                                 entry_ts |-> o.fill_ts]
                          /\ events[e].cash = h.cash - o.fee
                    /\ Closed(a) =>
                          /\ events[e].pos = FlatPosition
                          /\ e > 1 /\ events[e - 1].fn = "on_trade"
                          /\ events[e - 1].pos.size = h.held
                          /\ events[e - 1].cash = events[e].cash
                          /\ LET t == Trades[events[e - 1].arg]
                             IN  /\ t.exit_ts = o.fill_ts
                                 /\ t.exit_price = o.fill_price
                                 /\ t.size = Abs(h.held)
                                 /\ events[e].cash =
                                       h.cash + (o.fill_price - t.entry_price) * h.held - o.fee

\* a step makes at most the calls of one order: a trade's on_trade and the
\* order's on_order, and never takes a call back
C15_OnOrderStep ==
    /\ Len(events) <= Len(events')
    /\ SubSeq(events', 1, Len(events)) = events
    /\ Cardinality({e \in (Len(events) + 1)..Len(events') : events'[e].fn = "on_order"}) <= 1

\* C15: on_order is called exactly once for every order that is filled,
\* opening or closing the position, and once for every order rejected for
\* margin, with the position and cash as the order left them; for a closing
\* fill on_trade is called immediately before it, while the position is
\* still open; it is not called for a scale-skipped order, and as every call
\* is for an Order record, not for a FLATTEN dropped while flat.
C15_OnOrderDispatch == [](C15_OnOrderState) /\ [][C15_OnOrderStep]_vars

\* a run with an opening fill, a scale-skipped order and a closing fill: two
\* on_order calls for three FILLED records
C15_Witness ==
    /\ \E a \in OrderIdx : Opened(a) /\ Orders[a].fee > 0
    /\ \E a \in OrderIdx : Skipped(a)
    /\ \E a \in OrderIdx : Closed(a)
    /\ Cardinality(CallsOf("on_order")) = 2

\* a margin rejection and a FLATTEN dropped while flat: one on_order call
C15_WitnessRejected ==
    /\ \E a \in OrderIdx : Orders[a].status = "REJECTED"
    /\ \E q \in queued : q.side = "FLATTEN" /\ q.qi < i /\ RecordsOf(q) = {}
    /\ Cardinality(CallsOf("on_order")) = 1

(***************************************************************************)
(* Trade accounting                                                        *)
(***************************************************************************)
SignedSize(t) == IF t.side = "LONG" THEN t.size ELSE -t.size

\* the fee of one leg of a trade, filled at price p
LegFee(t, p) == (t.size * p * config.commission_bps) \div BpsDen

\* C16: every Trade has pnl net of both legs' fees,
\* pnl = (exit_price - entry_price) * signed size - entry fee - exit fee,
\* and fee_total equal to the sum of the entry and the exit fee.
C16_TradeAccounting ==
    \A a \in 1..Len(Trades) :
        LET t == Trades[a]
            entry_fee == LegFee(t, t.entry_price)
            exit_fee == LegFee(t, t.exit_price)
        IN  /\ t.pnl = (t.exit_price - t.entry_price) * SignedSize(t)
                          - entry_fee - exit_fee
            /\ t.fee_total = entry_fee + exit_fee

(***************************************************************************)
(* Equity and drawdown                                                     *)
(***************************************************************************)
\* the largest of the first k equities observed
RunningPeak(k) ==
    CHOOSE m \in {equity_seen[j] : j \in 1..k} : \A j \in 1..k : equity_seen[j] <= m

\* (peak - equity) / peak as the fraction the portfolio keeps
DrawdownOf(peak, equity) == [num |-> peak - equity, den |-> peak]

\* the index of the bar with timestamp ts
BarAt(ts) == CHOOSE k \in 0..(n - 1) : Bar(k).ts = ts

\* C17 (state): the drawdown of the portfolio, and the one recorded with
\* every sample, is (running_peak - equity) / running_peak for the running
\* peak of all the equities observed up to that mark, and is >= 0.
C17_DrawdownState ==
    /\ equity_seen # <<>> =>
          /\ portfolio.equity = Last(equity_seen)
          /\ portfolio.peak = RunningPeak(Len(equity_seen))
          /\ portfolio.peak > 0
          /\ portfolio.drawdown = DrawdownOf(portfolio.peak, portfolio.equity)
          /\ portfolio.drawdown.num >= 0
    /\ \A a \in 1..SeriesLen :
          LET k == BarAt(result.equity_ts[a]) + 1
          IN  /\ result.equity[a] = equity_seen[k]
              /\ result.drawdown[a] = DrawdownOf(RunningPeak(k), equity_seen[k])
              /\ result.drawdown[a].num >= 0

\* C17 (step): the peak never decreases; the marking step of bar i sets
\* equity to cash when flat and to cash + (close - entry_price) * size
\* otherwise, and changes neither cash nor the position.
C17_MarkStep ==
    /\ portfolio.peak # None /\ pc # "call" => portfolio'.peak >= portfolio.peak
    /\ (pc = "loop" /\ pc' \in {"orders", "on_bar"}) =>
          /\ portfolio'.cash = portfolio.cash
          /\ position' = position
          /\ Len(equity_seen') = Len(equity_seen) + 1
          /\ portfolio'.equity =
                (IF position.size = 0 THEN portfolio.cash
                 ELSE portfolio.cash
                        + (Bar(i').close - position.entry_price) * position.size)

\* C17: drawdown monotonic-peak property of mark_to_market.
C17_Drawdown == [](C17_DrawdownState) /\ [][C17_MarkStep]_vars

\* a long position marked to market at a loss: the equity is below the
\* peak and the positive drawdown is in the sampled series
C17_Witness ==
    /\ Len(equity_seen) >= 3
    /\ position.size > 0
    /\ portfolio.equity < portfolio.cash
    /\ portfolio.drawdown.num > 0
    /\ SeriesLen >= 1 /\ Last(result.drawdown).num > 0

\* a short position marked to market at a gain: the peak rose above the
\* initial cash
C17_WitnessPeak ==
    /\ position.size < 0
    /\ portfolio.equity > portfolio.cash
    /\ portfolio.peak > config.initial_cash

(***************************************************************************)
(* broker.py called on its own: margin_required and can_fill as functions  *)
(* of their arguments                                                      *)
(***************************************************************************)
run_vars == <<bars_none, bars, strategy_module, config, has_cancel_flag,
              has_progress_cb, cancel_requested, pc, i, oi, status, position,
              portfolio, trading_enabled, ctx_orders, ctx_logs, pending_orders,
              last_warn, result, returned, budget, events, queued, polls,
              processed, resolved, req_processed, equity_seen>>

\* arguments: sizes of both signs and zero, whole prices, leverage negative,
\* zero, one half (1 in units of 1/LevScale with LevScale = 2), one and two,
\* and equities below, at and above the margins these give
BrokerSizes == (-MaxSize)..MaxSize
BrokerPrices == {FP * p : p \in 10..12}
BrokerLeverages == {-LevScale, 0, 1, LevScale, 2 * LevScale}
BrokerEquities == {FP * e : e \in {0, 5, 10, 20, 24}}

InitBroker ==
    /\ InitRun
    /\ bars = <<>>
    /\ bars_none = FALSE
    /\ config \in LongConfigs
    /\ strategy_module = AllCallbacks({}, {})
    /\ has_cancel_flag = FALSE
    /\ has_progress_cb = FALSE
    /\ budget = 0
    /\ FetchIdle
    /\ StoreIdle
    /\ ChartIdle

\* margin_required(size, price, leverage)
CallMarginRequired ==
    /\ \E size \in BrokerSizes, price \in BrokerPrices, leverage \in BrokerLeverages :
          broker_call' = [fn |-> "margin_required", size |-> size, price |-> price,
                          leverage |-> leverage,
                          required |-> margin_required(size, price, leverage)]
    /\ UNCHANGED <<run_vars, fetch_vars, store_vars, chart_vars>>

\* can_fill(size, price, equity, leverage) -> (ok, required)
CallCanFill ==
    /\ \E size \in BrokerSizes, price \in BrokerPrices, leverage \in BrokerLeverages,
          equity \in BrokerEquities :
          broker_call' = [fn |-> "can_fill", size |-> size, price |-> price,
                          leverage |-> leverage, equity |-> equity,
                          ok |-> can_fill(size, price, equity, leverage),
                          required |-> margin_required(size, price, leverage)]
    /\ UNCHANGED <<run_vars, fetch_vars, store_vars, chart_vars>>

NextBroker ==
    \/ CallMarginRequired
    \/ CallCanFill

\* the broker's margin functions over a grid of arguments
SpecBroker == InitBroker /\ [][NextBroker]_vars

\* |size| * price, the notional of an order
Notional(c) == Abs(c.size) * c.price

\* C18: margin_required(size, price, leverage) is
\* |size| * price / max(leverage, 1) for every leverage, so a leverage <= 0
\* or below 1 counts as 1 and the margin is never above the notional, never
\* negative; can_fill is true iff that margin is <= equity.
C18_MarginRequired ==
    broker_call.fn # "none" =>
        /\ broker_call.required =
              (Notional(broker_call) * LevScale) \div Max(broker_call.leverage, LevScale)
        /\ broker_call.required <= Notional(broker_call)
        /\ broker_call.required >= 0
        /\ broker_call.fn = "can_fill" =>
              (broker_call.ok <=> broker_call.required <= broker_call.equity)

\* what the code does there: only a leverage <= 0 counts as 1, a leverage
\* between 0 and 1 divides as it is; can_fill compares the result with equity
C18_OnlyNonPositive ==
    broker_call.fn # "none" =>
        /\ broker_call.required =
              (Notional(broker_call) * LevScale)
                  \div (IF broker_call.leverage <= 0 THEN LevScale
                        ELSE broker_call.leverage)
        /\ broker_call.required >= 0
        /\ broker_call.fn = "can_fill" =>
              (broker_call.ok <=> broker_call.required <= broker_call.equity)

(***************************************************************************)
(* Bar cache (data_store.py) and external provider                         *)
(*                                                                         *)
(* One series (exchange, symbol, timeframe).  A row is its timestamp and   *)
(* one value standing for its OHLCV fields: rows the provider serves carry *)
(* 1, rows that were in the cache before carry 0, so that an upsert shows. *)
(* Timestamps are counted in a unit of which the timeframe's interval      *)
(* holds FetchInterval.                                                    *)
(***************************************************************************)
FetchInterval == 2    \* interval_ms of the series' timeframe
GridLen == 5          \* the provider's series spans GridLen intervals
MaxCount == 4         \* largest bar_count of a request
MaxCalls == 2         \* orchestrator calls in one behaviour

BarRow(ts, v) == [ts |-> ts, close |-> v]

RECURSIVE SortedRows(_)
\* `ORDER BY ts_ms ASC`
SortedRows(rows) ==
    IF rows = {} THEN <<>>
    ELSE LET m == CHOOSE r \in rows : \A x \in rows : r.ts <= x.ts
         IN  <<m>> \o SortedRows(rows \ {m})

RowSet(q) == {q[k] : k \in 1..Len(q)}
TsOf(rows) == {r.ts : r \in rows}

\* DataStore.get_cached_range: <<min, max>>, or <<>> for None
get_cached_range(c) ==
    IF c = {} THEN <<>>
    ELSE <<CHOOSE a \in TsOf(c) : \A b \in TsOf(c) : a <= b,
           CHOOSE a \in TsOf(c) : \A b \in TsOf(c) : a >= b>>

\* DataStore.load_bars: `ts_ms BETWEEN start AND end`, ascending
load_bars(c, start_ts, end_ts) ==
    SortedRows({r \in c : start_ts <= r.ts /\ r.ts <= end_ts})

\* a write that keeps only the rows of the batch
store_bars_mut_truncate(c, new_bars) ==
    IF new_bars = <<>> THEN c ELSE RowSet(new_bars)

\* DataStore.store_bars: INSERT OR REPLACE on the key
store_bars(c, new_bars) ==
    IF new_bars = <<>> THEN c
    ELSE {r \in c : r.ts \notin TsOf(RowSet(new_bars))} \cup RowSet(new_bars)

\* DataStore.get_history_limit -> (oldest_ts, oldest_reached)
get_history_limit(lim) == <<lim.oldest_ts, lim.reached>>

\* DataStore.set_history_limit(oldest_ts, reached)
set_history_limit(oldest_ts, reached) == [oldest_ts |-> oldest_ts, reached |-> reached]

\* binance.fetch_ohlcv: the bars the provider holds with open time in
\* [start_ts, end_ts], ascending
fetch_ohlcv(p, start_ts, end_ts) ==
    SortedRows({r \in p : start_ts <= r.ts /\ r.ts <= end_ts})

(***************************************************************************)
(* data_fetch.py: the gap test                                             *)
(***************************************************************************)
\* a pair one interval and a half apart counts as a gap
HasGap_mut_inclusive(rows, interval_ms) ==
    \E k \in 1..(Len(rows) - 1) :
        2 * (rows[k + 1].ts - rows[k].ts) >= 3 * interval_ms

\* `ts - prev_ts > interval_ms * 1.5` for some adjacent pair
HasGap(rows, interval_ms) ==
    \E k \in 1..(Len(rows) - 1) :
        2 * (rows[k + 1].ts - rows[k].ts) > 3 * interval_ms

\* the density test asks for every expected row
NineTenths_mut_all(k) == k

\* int(k * 0.9)
NineTenths(k) == (9 * k) \div 10

\* what one call of a mode did: the cache and history limit it leaves, the
\* provider calls it made (<<start, end>> each), the span it was asked for,
\* the rows it read from the cache for that span, the path it took, and the
\* bars it returned
Outcome(c, lim, fetched, span, read, path, ret) ==
    [cache |-> c, limit |-> lim, fetched |-> fetched, span |-> span,
     read |-> read, path |-> path, ret |-> ret]

(***************************************************************************)
(* data_fetch.py: the fetching modes                                       *)
(***************************************************************************)
\* load_recent_bars, lines 15-53
load_recent_bars(p, c, lim, bar_count, now_ms) ==
    LET interval_ms == FetchInterval
        start_ms == now_ms - bar_count * interval_ms
        cached_range == get_cached_range(c)
        forward == cached_range # <<>> /\ cached_range[2] < now_ms - interval_ms
        c1 == IF forward
              THEN store_bars(c, fetch_ohlcv(p, cached_range[2] + interval_ms, now_ms))
              ELSE c
        f1 == IF forward THEN <<<<cached_range[2] + interval_ms, now_ms>>>> ELSE <<>>
        recent_start == Max(0, now_ms - interval_ms * 2)
        c2 == store_bars(c1, fetch_ohlcv(p, recent_start, now_ms))
        f2 == Append(f1, <<recent_start, now_ms>>)
        cached == load_bars(c2, start_ms, now_ms)
        expected_min == NineTenths(bar_count)
        has_gap == Len(cached) >= 2 /\ HasGap(cached, interval_ms)
        full == fetch_ohlcv(p, start_ms, now_ms)
        c3 == store_bars(c2, full)
        f3 == Append(f2, <<start_ms, now_ms>>)
        span == <<start_ms, now_ms>>
    IN  IF cached # <<>> /\ Len(cached) >= expected_min /\ ~has_gap
        THEN Outcome(c2, lim, f2, span, cached, "accepted", cached)
        ELSE IF cached # <<>>
        THEN Outcome(c3, lim, f3, span, cached, "refetched",
                     load_bars(c3, start_ms, now_ms))
        ELSE Outcome(c3, lim, f3, span, cached, "fetched", full)

\* a window whose left edge is at the limit is not taken for exhausted
HistoryExhausted_mut_strict(limit, current_min_ts) ==
    limit[2] /\ limit[1] # None /\ current_min_ts < limit[1]

\* the history limit is never taken for reached
HistoryExhausted_mut_never(limit, current_min_ts) == FALSE

\* line 119: `oldest_reached and oldest_ts is not None and
\* current_min_ts <= oldest_ts`
HistoryExhausted(limit, current_min_ts) ==
    limit[2] /\ limit[1] # None /\ current_min_ts <= limit[1]

\* load_more_history, lines 109-148; a missing current_min_ts or
\* current_max_ts is None
load_more_history(p, c, lim, bar_count, min_arg, max_arg, now_ms) ==
    LET interval_ms == FetchInterval
        cached_range == get_cached_range(c)
        current_min_ts == IF min_arg = None THEN cached_range[1] ELSE min_arg
        current_max_ts == IF max_arg = None THEN cached_range[2] ELSE max_arg
        limit == get_history_limit(lim)
        current == load_bars(c, current_min_ts, current_max_ts)
        new_start == Max(0, current_min_ts - bar_count * interval_ms)
        span == <<new_start, current_min_ts - 1>>
        cached_prev == load_bars(c, new_start, current_min_ts - 1)
        expected_count == ((current_min_ts - 1 - new_start) \div interval_ms) + 1
        has_gap ==
            IF cached_prev # <<>>
               /\ Len(cached_prev) >= Max(1, NineTenths(expected_count))
            THEN HasGap(cached_prev, interval_ms)
            ELSE TRUE
        fetched_bars == fetch_ohlcv(p, new_start, current_min_ts - 1)
        c1 == store_bars(c, fetched_bars)
    IN  IF cached_range = <<>>
        THEN load_recent_bars(p, c, lim, bar_count, now_ms)
        ELSE IF HistoryExhausted(limit, current_min_ts)
        THEN Outcome(c, lim, <<>>, span, <<>>, "limit", current)
        ELSE IF new_start >= current_min_ts
        THEN Outcome(c, lim, <<>>, span, <<>>, "no_span", current)
        ELSE IF ~has_gap
        THEN Outcome(c, lim, <<>>, span, cached_prev, "accepted",
                     load_bars(c, new_start, current_max_ts))
        ELSE IF fetched_bars # <<>>
        THEN Outcome(c1, lim, <<span>>, span, cached_prev, "refetched",
                     load_bars(c1, new_start, current_max_ts))
        ELSE Outcome(c, set_history_limit(current_min_ts, TRUE), <<span>>, span,
                     cached_prev, "boundary", current)

\* load_window_bars, lines 159-195
load_window_bars(p, c, lim, start_ms, end_ms) ==
    LET interval_ms == FetchInterval
        span == <<start_ms, end_ms>>
        cached == load_bars(c, start_ms, end_ms)
        has_gap == interval_ms > 0 /\ HasGap(cached, interval_ms)
        expected_span == IF interval_ms > 0 THEN (end_ms - start_ms) \div interval_ms ELSE 0
        expected_min == IF expected_span > 0 THEN NineTenths(expected_span)
                        ELSE expected_span
        fetched_bars == fetch_ohlcv(p, start_ms, end_ms)
        c1 == store_bars(c, fetched_bars)
        cached_range == get_cached_range(c1)
        lim1 ==
            IF cached_range # <<>> /\ start_ms <= cached_range[1]
            THEN (IF fetched_bars = <<>>
                  THEN set_history_limit(cached_range[1], TRUE)
                  ELSE IF fetched_bars[1].ts >= cached_range[1]
                  THEN set_history_limit(cached_range[1], TRUE)
                  ELSE lim)
            ELSE lim
    IN  IF start_ms >= end_ms
        THEN Outcome(c, lim, <<>>, span, <<>>, "no_span", <<>>)
        ELSE IF cached # <<>> /\ ~has_gap
                /\ (expected_min <= 0 \/ Len(cached) >= expected_min)
        THEN Outcome(c, lim, <<>>, span, cached, "accepted", cached)
        ELSE Outcome(c1, lim1, <<span>>, span, cached,
                     IF cached # <<>> THEN "refetched" ELSE "fetched",
                     load_bars(c1, start_ms, end_ms))

(***************************************************************************)
(* data_fetch.py: the cache-only modes                                     *)
(***************************************************************************)
\* load_cached_bars, lines 63-70
load_cached_bars(c, lim, bar_count) ==
    LET interval_ms == FetchInterval
        cached_range == get_cached_range(c)
        start_ms == Max(cached_range[1], cached_range[2] - bar_count * interval_ms)
        cached == load_bars(c, start_ms, cached_range[2])
    IN  IF cached_range = <<>>
        THEN Outcome(c, lim, <<>>, <<>>, <<>>, "cached", <<>>)
        ELSE Outcome(c, lim, <<>>, <<start_ms, cached_range[2]>>, <<>>, "cached", cached)

\* load_cached_full, lines 79-84
load_cached_full(c, lim) ==
    LET cached_range == get_cached_range(c)
        cached == load_bars(c, cached_range[1], cached_range[2])
    IN  IF cached_range = <<>>
        THEN Outcome(c, lim, <<>>, <<>>, <<>>, "cached", <<>>)
        ELSE Outcome(c, lim, <<>>, cached_range, <<>>, "cached", cached)

(***************************************************************************)
(* Calls of the orchestrator                                               *)
(***************************************************************************)
GridTs == {k * FetchInterval : k \in 0..GridLen}

\* what the provider holds: the full grid; the grid with one bar missing
\* (an outage, the neighbours are two intervals apart); the grid with the
\* bars from the third on half an interval late (one pair is one interval
\* and a half apart when FetchInterval is even); a series that begins late
ProviderSeries ==
    {GridTs,
     GridTs \ {2 * FetchInterval},
     {IF t >= 2 * FetchInterval THEN t + FetchInterval \div 2 ELSE t :
          t \in GridTs \ {GridLen * FetchInterval}},
     {t \in GridTs : t >= 3 * FetchInterval}}

\* what the cache holds at first: nothing, or the provider's bars from some
\* bar on, possibly with one of them missing
CacheShapes(p) ==
    {{}} \cup
    {{BarRow(t, 0) : t \in {u \in p : u >= a /\ u # hole}} :
         a \in p, hole \in p \cup {None}}

\* time.time() when a call runs
NowTimes == {GridLen * FetchInterval, GridLen * FetchInterval + 1}

BarCounts == 1..MaxCount

\* [start_ms, end_ms] of a window request
Windows ==
    {<<0, GridLen * FetchInterval>>,
     <<FetchInterval, 3 * FetchInterval + 1>>,
     <<2 * FetchInterval, 2 * FetchInterval>>}

\* current_min_ts passed to a backfill
CurrentMins == {None, 2 * FetchInterval, 3 * FetchInterval}

InitFetch ==
    /\ InitRun
    /\ bars = <<>>
    /\ bars_none = FALSE
    /\ config \in {RunConfig(25, LevScale, 100, 100, 0, TRUE)}
    /\ strategy_module = AllCallbacks({}, {})
    /\ has_cancel_flag = FALSE
    /\ has_progress_cb = FALSE
    /\ budget = 0
    /\ \E p \in ProviderSeries :
          /\ provider = {BarRow(t, 1) : t \in p}
          /\ cache \in CacheShapes(p)
    /\ history_limit = [oldest_ts |-> None, reached |-> FALSE]
    /\ fetch_call = NoFetch
    /\ calls_left = MaxCalls
    /\ StoreIdle
    /\ ChartIdle

\* the orchestrator's call is over: the store holds what it left, and the
\* call with its arguments and outcome is on record
Returned(mode, args, out) ==
    /\ cache' = out.cache
    /\ history_limit' = out.limit
    /\ fetch_call' = [mode |-> mode, args |-> args, before |-> cache,
                      limit_before |-> history_limit, fetched |-> out.fetched,
                      span |-> out.span, read |-> out.read, path |-> out.path,
                      ret |-> out.ret]
    /\ calls_left' = calls_left - 1
    /\ UNCHANGED <<provider, run_vars, broker_call, store_vars, chart_vars>>

LoadRecentBars ==
    /\ calls_left > 0
    /\ \E bar_count \in BarCounts, now_ms \in NowTimes :
          Returned("recent", <<bar_count, now_ms>>,
                   load_recent_bars(provider, cache, history_limit, bar_count, now_ms))

LoadMoreHistory ==
    /\ calls_left > 0
    /\ \E bar_count \in BarCounts, current_min_ts \in CurrentMins :
          LET now_ms == GridLen * FetchInterval + 1
          IN  Returned("backfill", <<bar_count, current_min_ts>>,
                       load_more_history(provider, cache, history_limit, bar_count,
                                         current_min_ts, None, now_ms))

LoadWindowBars ==
    /\ calls_left > 0
    /\ \E w \in Windows :
          Returned("window", w,
                   load_window_bars(provider, cache, history_limit, w[1], w[2]))

LoadCachedBars ==
    /\ calls_left > 0
    /\ \E bar_count \in BarCounts :
          Returned("load_cached", <<bar_count>>,
                   load_cached_bars(cache, history_limit, bar_count))

LoadCachedFull ==
    /\ calls_left > 0
    /\ Returned("load_cached_full", <<>>, load_cached_full(cache, history_limit))

RECURSIVE StoreAll(_, _, _)
\* the cache after the bars of each span were fetched and stored, in order
StoreAll(p, c, spans) ==
    IF spans = <<>> THEN c
    ELSE StoreAll(p, store_bars(c, fetch_ohlcv(p, spans[1][1], spans[1][2])),
                  Tail(spans))

\* binance.fetch_ohlcv raises (binance.py 35-36, 80-82) in the k-th provider
\* call of a mode that would have made the calls of out: no mode catches it,
\* so the calls before it were made and stored (data_fetch.py 23-24, 28-29),
\* the history limit, written only after a fetch (145, 186, 193), is as it
\* was, and nothing is returned
RaisedAt(p, c, lim, out, k) ==
    Outcome(StoreAll(p, c, SubSeq(out.fetched, 1, k - 1)), lim,
            SubSeq(out.fetched, 1, k), out.span, out.read, "raised", <<>>)

\* load_recent_bars with a provider call that fails
RecentFails ==
    /\ calls_left > 0
    /\ \E bar_count \in BarCounts, now_ms \in NowTimes :
          LET out == load_recent_bars(provider, cache, history_limit, bar_count, now_ms)
          IN  \E k \in 1..Len(out.fetched) :
                 Returned("recent", <<bar_count, now_ms>>,
                          RaisedAt(provider, cache, history_limit, out, k))

\* load_more_history with a provider call that fails
BackfillFails ==
    /\ calls_left > 0
    /\ \E bar_count \in BarCounts, current_min_ts \in CurrentMins :
          LET now_ms == GridLen * FetchInterval + 1
              out == load_more_history(provider, cache, history_limit, bar_count,
                                       current_min_ts, None, now_ms)
          IN  \E k \in 1..Len(out.fetched) :
                 Returned("backfill", <<bar_count, current_min_ts>>,
                          RaisedAt(provider, cache, history_limit, out, k))

\* load_window_bars with a provider call that fails
WindowFails ==
    /\ calls_left > 0
    /\ \E w \in Windows :
          LET out == load_window_bars(provider, cache, history_limit, w[1], w[2])
          IN  \E k \in 1..Len(out.fetched) :
                 Returned("window", w,
                          RaisedAt(provider, cache, history_limit, out, k))

\* the modes that may call the provider
FetchingModes == {"recent", "backfill", "window"}

NextFetch ==
    \/ LoadRecentBars
    \/ LoadMoreHistory
    \/ LoadWindowBars
    \/ LoadCachedBars
    \/ LoadCachedFull

\* the orchestrator over one series, a few calls in a row
SpecFetch == InitFetch /\ [][NextFetch]_vars

\* the modes that call the provider, each with and without a failure
NextFail ==
    \/ LoadRecentBars
    \/ LoadMoreHistory
    \/ LoadWindowBars
    \/ RecentFails
    \/ BackfillFails
    \/ WindowFails

\* the orchestrator with a provider whose calls may fail
SpecFail == InitFetch /\ [][NextFail]_vars

(***************************************************************************)
(* Gap detection                                                           *)
(***************************************************************************)
\* some adjacent pair of the rows is more than one interval and a half apart
GapAmong(rows) ==
    \E k \in 1..(Len(rows) - 1) :
        2 * (rows[k + 1].ts - rows[k].ts) > 3 * FetchInterval

\* the widest step between adjacent rows is exactly one interval and a half
ExactlyOneAndAHalf(rows) ==
    /\ ~GapAmong(rows)
    /\ \E k \in 1..(Len(rows) - 1) :
          2 * (rows[k + 1].ts - rows[k].ts) = 3 * FetchInterval

\* the call fetched the whole requested span from the provider, stored what
\* it got, and returned what the cache holds afterwards
FullRefetch ==
    /\ \E k \in 1..Len(fetch_call.fetched) : fetch_call.fetched[k] = fetch_call.span
    /\ \A r \in provider :
          (fetch_call.span[1] <= r.ts /\ r.ts <= fetch_call.span[2]) => r \in cache
    /\ RowSet(fetch_call.ret) \subseteq cache

\* the number of rows below which the mode takes the span for too sparse
RequiredRows ==
    IF fetch_call.mode = "window"
    THEN NineTenths((fetch_call.span[2] - fetch_call.span[1]) \div FetchInterval)
    ELSE IF fetch_call.path \in {"accepted", "refetched", "fetched"}
            /\ Len(fetch_call.fetched) > 0
            /\ Last(fetch_call.fetched)[2] >= GridLen * FetchInterval
    THEN NineTenths((fetch_call.span[2] - fetch_call.span[1]) \div FetchInterval)
    ELSE Max(1, NineTenths(((fetch_call.span[2] - fetch_call.span[1])
                                \div FetchInterval) + 1))

\* the bars returned are a slice of what the cache holds after the call
ReRead ==
    fetch_call.ret # <<>> =>
        fetch_call.ret = load_bars(cache, fetch_call.ret[1].ts, Last(fetch_call.ret).ts)

\* C19: in every fetching mode, when the rows the mode reads from the cache
\* for the requested span have an adjacent pair more than 1.5 intervals
\* apart, the slice is not returned as it is: the provider is called for the
\* whole requested span, what it returns is stored, and the bars returned
\* are read from the cache after that; a pair exactly 1.5 intervals apart is
\* no gap, so a re-fetch happens only for a wider pair or too few rows.
C19_GapRefetch ==
    fetch_call.mode \in FetchingModes =>
        /\ GapAmong(fetch_call.read) =>
              /\ fetch_call.path \in {"refetched", "boundary"}
              /\ FullRefetch
              /\ ReRead
        /\ fetch_call.path \in {"refetched", "boundary"} =>
              GapAmong(fetch_call.read) \/ Len(fetch_call.read) < RequiredRows
        /\ fetch_call.path = "accepted" =>
              /\ ~GapAmong(fetch_call.read)
              /\ fetch_call.mode # "backfill" => fetch_call.ret = fetch_call.read

\* a window whose cached rows were enough in number but had a hole: the
\* provider was asked for the window and the hole is filled in what returns
C19_Witness ==
    /\ fetch_call.mode = "window"
    /\ GapAmong(fetch_call.read)
    /\ Len(fetch_call.read) >= RequiredRows
    /\ fetch_call.fetched = <<fetch_call.span>>
    /\ ~GapAmong(fetch_call.ret)

\* the same in recent-bars mode and in backfill mode
C19_WitnessRecent ==
    /\ fetch_call.mode = "recent"
    /\ GapAmong(fetch_call.read)
    /\ Len(fetch_call.read) >= RequiredRows
    /\ ~GapAmong(fetch_call.ret)

C19_WitnessBackfill ==
    /\ fetch_call.mode = "backfill"
    /\ GapAmong(fetch_call.read)
    /\ Len(fetch_call.read) >= RequiredRows
    /\ fetch_call.fetched = <<fetch_call.span>>

\* cached rows with a pair exactly 1.5 intervals apart returned as they are
C19_WitnessExact ==
    /\ fetch_call.mode = "window"
    /\ ExactlyOneAndAHalf(fetch_call.read)
    /\ fetch_call.path = "accepted"
    /\ fetch_call.fetched = <<>>

\* C20: every bar slice a fetching mode returns is free of gaps: no two
\* adjacent bars of it are more than 1.5 intervals apart, whatever the
\* provider returned for the re-fetch.
C20_GapFree ==
    fetch_call.mode \in FetchingModes => ~GapAmong(fetch_call.ret)

\* the failing case of C20: a window re-fetched from a provider that lacks a
\* bar is read back and returned with the hole in it
C20_RefetchedWithGap ==
    /\ fetch_call.mode = "window"
    /\ fetch_call.path \in {"refetched", "fetched"}
    /\ fetch_call.fetched = <<fetch_call.span>>
    /\ GapAmong(fetch_call.ret)

(***************************************************************************)
(* Repeated calls against a sufficient cache                               *)
(***************************************************************************)
\* the call on record made once more, on the store as it is now
RepeatCall ==
    CASE fetch_call.mode = "recent" ->
           load_recent_bars(provider, cache, history_limit,
                            fetch_call.args[1], fetch_call.args[2])
      [] fetch_call.mode = "backfill" ->
           load_more_history(provider, cache, history_limit, fetch_call.args[1],
                             fetch_call.args[2], None, GridLen * FetchInterval + 1)
      [] fetch_call.mode = "window" ->
           load_window_bars(provider, cache, history_limit,
                            fetch_call.args[1], fetch_call.args[2])
      [] fetch_call.mode = "load_cached" ->
           load_cached_bars(cache, history_limit, fetch_call.args[1])
      [] OTHER -> load_cached_full(cache, history_limit)

\* the rows the cache held for the requested span when the call began
RowsBefore ==
    IF fetch_call.span = <<>> THEN <<>>
    ELSE load_bars(fetch_call.before, fetch_call.span[1], fetch_call.span[2])

\* the count the span is expected to hold: span / interval, and one more in
\* backfill mode, whose span ends one millisecond before a bar
ExpectedCount ==
    ((fetch_call.span[2] - fetch_call.span[1]) \div FetchInterval)
        + (IF fetch_call.mode = "backfill" THEN 1 ELSE 0)

\* the rows pass the gap test and number at least int(0.9 * expected)
SufficientBefore ==
    /\ RowsBefore # <<>>
    /\ ~GapAmong(RowsBefore)
    /\ 10 * (Len(RowsBefore) + 1) > 9 * ExpectedCount

\* the call fetched nothing and wrote nothing, and so would its repetition,
\* which returns the same bars
NothingFetched ==
    /\ fetch_call.fetched = <<>>
    /\ cache = fetch_call.before
    /\ history_limit = fetch_call.limit_before
    /\ RepeatCall.fetched = <<>>
    /\ RepeatCall.cache = cache
    /\ RepeatCall.ret = fetch_call.ret

\* C21 as stated: in each of the four modes, when the cached rows for the
\* requested span pass the gap and density tests, the call issues no
\* provider call and leaves the cache unchanged, and repeating it returns
\* the same bars.
C21_NoCallWhenSufficient ==
    (fetch_call.mode # "none" /\ (fetch_call.mode \in FetchingModes => SufficientBefore))
        => NothingFetched

\* C21 amended: in backfill, window and cache-only mode, when the cached
\* rows for the requested span pass the gap and density tests, the call
\* issues no provider call and leaves the cache and the history limit
\* unchanged, and repeating it returns the same bars; in window mode such
\* rows are returned as they are (an empty window returns no bars).  Recent-bars mode always asks the provider
\* for the last two intervals; when the rows it then reads pass the tests it
\* asks for nothing more than that and a forward fill, and repeating the
\* call at the same time leaves the cache as it is and returns the same bars.
C21_Idempotent ==
    /\ (fetch_call.mode \in {"backfill", "window"} /\ SufficientBefore) => NothingFetched
    /\ (fetch_call.mode = "window" /\ SufficientBefore
          /\ fetch_call.span[1] < fetch_call.span[2]) =>
          /\ fetch_call.path = "accepted"
          /\ fetch_call.ret = RowsBefore
    /\ fetch_call.mode \in {"load_cached", "load_cached_full"} => NothingFetched
    /\ fetch_call.mode = "recent" =>
          /\ \E k \in 1..Len(fetch_call.fetched) :
                fetch_call.fetched[k] =
                    <<Max(0, fetch_call.args[2] - 2 * FetchInterval), fetch_call.args[2]>>
          /\ fetch_call.path = "accepted" =>
                /\ Len(fetch_call.fetched) <= 2
                /\ RepeatCall.cache = cache
                /\ RepeatCall.ret = fetch_call.ret

\* a window whose cached rows were just dense enough, returned as they are
C21_Witness ==
    /\ fetch_call.mode = "window"
    /\ SufficientBefore
    /\ Len(RowsBefore) < ExpectedCount
    /\ fetch_call.ret = RowsBefore
    /\ fetch_call.fetched = <<>>

\* a backfill served from the cache
C21_WitnessBackfill ==
    /\ fetch_call.mode = "backfill"
    /\ fetch_call.path = "accepted"
    /\ SufficientBefore
    /\ fetch_call.fetched = <<>>
    /\ fetch_call.ret # <<>>

\* recent-bars mode on a sufficient cache: the refresh overwrote cached rows
C21_WitnessRecent ==
    /\ fetch_call.mode = "recent"
    /\ SufficientBefore
    /\ fetch_call.path = "accepted"
    /\ Len(fetch_call.fetched) = 1
    /\ cache # fetch_call.before

(***************************************************************************)
(* The history limit                                                       *)
(***************************************************************************)
\* a backfill that found the cache non-empty, and its current_min_ts
OwnBackfill == fetch_call.mode = "backfill" /\ fetch_call.before # {}

CurrentMinTs ==
    IF fetch_call.args[2] = None THEN get_cached_range(fetch_call.before)[1]
    ELSE fetch_call.args[2]

\* the limit was recorded as reached when the call began
ReachedBefore ==
    fetch_call.limit_before.reached /\ fetch_call.limit_before.oldest_ts # None

\* C22 as stated: once the history limit is reached at T, a backfill whose
\* target start max(0, current_min_ts - bar_count * interval) is >= T
\* returns cached data without calling the provider.
C22_TargetStartShortCircuit ==
    (OwnBackfill /\ ReachedBefore
       /\ fetch_call.span[1] >= fetch_call.limit_before.oldest_ts)
        => fetch_call.fetched = <<>>

\* the short-circuit as the code has it
C22_LimitState ==
    (OwnBackfill /\ ReachedBefore
       /\ CurrentMinTs <= fetch_call.limit_before.oldest_ts) =>
        /\ fetch_call.path = "limit"
        /\ fetch_call.fetched = <<>>
        /\ cache = fetch_call.before
        /\ history_limit = fetch_call.limit_before
        /\ fetch_call.ret =
              load_bars(cache, CurrentMinTs, get_cached_range(fetch_call.before)[2])

\* a limit once reached stays reached
C22_LimitStep == history_limit.reached => history_limit'.reached

\* C22 amended: once the history limit is reached at T it stays reached, and
\* a backfill whose current_min_ts is <= T returns the cached bars of
\* [current_min_ts, current_max_ts] without calling the provider and without
\* changing the cache or the limit.
C22_ShortCircuit == [](C22_LimitState) /\ [][C22_LimitStep]_vars

\* a backfill stopped by the limit although the cache holds nothing of the
\* extension it was asked for
C22_Witness ==
    /\ OwnBackfill
    /\ fetch_call.path = "limit"
    /\ fetch_call.span[1] < CurrentMinTs
    /\ RowsBefore = <<>>
    /\ fetch_call.ret # <<>>

\* the backfill called the provider for its extension and got no bar
EmptyExtension ==
    /\ OwnBackfill
    /\ fetch_call.fetched = <<fetch_call.span>>
    /\ fetch_ohlcv(provider, fetch_call.span[1], fetch_call.span[2]) = <<>>

\* C23: a backfill that calls the provider for the extension
\* [new_start, current_min_ts - 1] and receives no bar records the history
\* limit (current_min_ts, reached), stores nothing and returns the cached
\* bars of [current_min_ts, current_max_ts]; the same backfill made again at
\* once calls the provider no more and returns the same bars.
C23_BoundaryRecorded ==
    EmptyExtension =>
        /\ fetch_call.path = "boundary"
        /\ fetch_call.span = <<Max(0, CurrentMinTs - fetch_call.args[1] * FetchInterval),
                               CurrentMinTs - 1>>
        /\ history_limit = [oldest_ts |-> CurrentMinTs, reached |-> TRUE]
        /\ cache = fetch_call.before
        /\ fetch_call.ret =
              load_bars(cache, CurrentMinTs, get_cached_range(fetch_call.before)[2])
        /\ RepeatCall.fetched = <<>>
        /\ RepeatCall.cache = cache
        /\ RepeatCall.limit = history_limit
        /\ RepeatCall.ret = fetch_call.ret

\* a backfill that found the boundary where none was recorded
C23_Witness ==
    /\ EmptyExtension
    /\ ~fetch_call.limit_before.reached
    /\ history_limit.reached
    /\ fetch_call.ret # <<>>

\* a backfill that moved a boundary recorded before
C23_WitnessMoved ==
    /\ EmptyExtension
    /\ fetch_call.limit_before.reached
    /\ history_limit # fetch_call.limit_before

\* C24: whenever the history limit is recorded as reached at T, the provider
\* holds no bar earlier than T; and window mode sets the limit only when the
\* fetch started at or before the minimum the cache had before the fetch and
\* the provider produced no bar earlier than that minimum.
C24_LimitSound ==
    /\ history_limit.reached =>
          \A r \in provider : r.ts >= history_limit.oldest_ts
    /\ (fetch_call.mode = "window" /\ history_limit # fetch_call.limit_before) =>
          /\ fetch_call.before # {}
          /\ fetch_call.span[1] <= get_cached_range(fetch_call.before)[1]
          /\ \A r \in provider : r.ts >= get_cached_range(fetch_call.before)[1]

\* the failing case of C24 in window mode: a window fetched into an empty
\* cache sets the limit at its own first bar although the provider holds an
\* earlier one
C24_WindowUnsound ==
    /\ fetch_call.mode = "window"
    /\ fetch_call.before = {}
    /\ ~fetch_call.limit_before.reached
    /\ history_limit.reached
    /\ \E r \in provider : r.ts < history_limit.oldest_ts

\* the failing case of C24 in backfill mode: the extension fell into a hole
\* of the provider's series
C24_BackfillUnsound ==
    /\ OwnBackfill
    /\ fetch_call.path = "boundary"
    /\ ~fetch_call.limit_before.reached
    /\ \E r \in provider : r.ts < history_limit.oldest_ts

(***************************************************************************)
(* data_store.py: the ohlcv table written row by row                       *)
(*                                                                         *)
(* A bar handed to store_bars is a sequence of fields.  A field is a       *)
(* number, a string that spells a number, some other string, None, or the  *)
(* float nan (or the string "nan", which float() reads as it); a row of    *)
(* the table is keyed by its series (exchange, symbol, timeframe) and its  *)
(* timestamp.                                                              *)
(***************************************************************************)
MaxRows == 2          \* bars in one batch handed to store_bars
MaxWrites == 2        \* writes to the table in one behaviour

Num(x) == [kind |-> "num", val |-> x]
NumStr(x) == [kind |-> "str", val |-> x]
Text == [kind |-> "text", val |-> 0]
Nil == [kind |-> "none", val |-> 0]
NaN == [kind |-> "nan", val |-> 0]

\* float(x): the number, or the exception the conversion raises; nan is a
\* float, and sqlite3 binds it as NULL, written None here
Coerce(f) ==
    CASE f.kind \in {"num", "str"} -> [exc |-> "", val |-> f.val]
      [] f.kind = "nan" -> [exc |-> "", val |-> None]
      [] f.kind = "text" -> [exc |-> "ValueError", val |-> 0]
      [] OTHER -> [exc |-> "TypeError", val |-> 0]

\* int(x): as float(x), but int(nan) raises ValueError
CoerceInt(f) ==
    IF f.kind = "nan" THEN [exc |-> "ValueError", val |-> 0] ELSE Coerce(f)

\* the conversion of field k of a bar: int for the timestamp, float after it
Converted(bar, k) == IF k = 1 THEN CoerceInt(bar[k]) ELSE Coerce(bar[k])

\* only a ValueError is caught
Caught_mut_value == {"ValueError"}

\* `except (ValueError, TypeError): continue`
Caught == {"ValueError", "TypeError"}

\* the exception the conversions of lines 83-88 raise for a bar of at least
\* 6 fields: that of the first field that fails, "" when none does
FirstExc(bar) ==
    IF \A k \in 1..6 : Converted(bar, k).exc = "" THEN ""
    ELSE LET k == CHOOSE a \in 1..6 :
                      /\ Converted(bar, a).exc # ""
                      /\ \A b \in 1..(a - 1) : Converted(bar, b).exc = ""
         IN  Converted(bar, k).exc

\* the tuple appended to `rows` at line 91
TableRow(series, bar) ==
    [series |-> series, ts |-> Converted(bar, 1).val, open |-> Converted(bar, 2).val,
     high |-> Converted(bar, 3).val, low |-> Converted(bar, 4).val,
     close |-> Converted(bar, 5).val, volume |-> Converted(bar, 6).val]

\* `REAL NOT NULL` of lines 25-29: a row with a NULL value is refused
NotNull(row) ==
    /\ row.open # None /\ row.high # None /\ row.low # None
    /\ row.close # None /\ row.volume # None

\* PRIMARY KEY (exchange, symbol, timeframe, ts_ms)
SameKey(r, q) == r.series = q.series /\ r.ts = q.ts

\* a plain INSERT that keeps the row already there
InsertOrReplace_mut_insert(tbl, row) == tbl \cup {row}

\* INSERT OR REPLACE of one row
InsertOrReplace(tbl, row) == {r \in tbl : ~SameKey(r, row)} \cup {row}

RECURSIVE ExecuteMany(_, _)
\* conn.executemany: the rows one after the other
ExecuteMany(tbl, rows) ==
    IF rows = <<>> THEN tbl
    ELSE ExecuteMany(InsertOrReplace(tbl, Head(rows)), Tail(rows))

RECURSIVE RowsOfBatch(_, _)
\* the loop of lines 79-91: bars of fewer than 6 fields and bars whose
\* conversion raises a caught exception are left out
RowsOfBatch(series, batch) ==
    IF batch = <<>> THEN <<>>
    ELSE LET bar == Head(batch)
             rest == RowsOfBatch(series, Tail(batch))
         IN  IF Len(bar) < 6 \/ FirstExc(bar) # "" THEN rest
             ELSE <<TableRow(series, bar)>> \o rest

\* DataStore.store_bars, lines 75-102: the table it leaves and the exception
\* that leaves it, "" for a normal return; an exception inside `with
\* self._connect() as conn` rolls the whole batch back
StoreBars(tbl, series, batch) ==
    LET escaping == {k \in 1..Len(batch) :
                        /\ Len(batch[k]) >= 6
                        /\ FirstExc(batch[k]) \notin Caught \cup {""}}
        first == CHOOSE k \in escaping : \A j \in escaping : k <= j
        rows == RowsOfBatch(series, batch)
    IN  IF batch = <<>> THEN [table |-> tbl, raised |-> ""]
        ELSE IF escaping # {}
        THEN [table |-> tbl, raised |-> FirstExc(batch[first])]
        ELSE IF \E k \in 1..Len(rows) : ~NotNull(rows[k])
        THEN [table |-> tbl, raised |-> "IntegrityError"]
        ELSE [table |-> ExecuteMany(tbl, rows), raised |-> ""]

(***************************************************************************)
(* Writers of the table                                                    *)
(***************************************************************************)
\* two series that differ in their key
StoreSeries == {"BTCUSDT", "ETHUSDT"}

\* bars as callers hand them in: a bar at timestamp 1; the same timestamp
\* with other values, spelled as strings; a bar at timestamp 2 whose low is
\* 0; a bar of 5 fields; a bar with a word for its high; a bar whose close
\* is None; a bar whose high is nan
BarA == <<Num(1), Num(1), Num(1), Num(1), Num(1), Num(0)>>
BarB == <<NumStr(1), NumStr(2), NumStr(2), NumStr(2), NumStr(2), NumStr(0)>>
BarZero == <<Num(2), Num(1), Num(1), Num(0), Num(1), Num(0)>>
BarShort == <<Num(2), Num(1), Num(1), Num(1), Num(1)>>
BarText == <<Num(2), Num(1), Text, Num(1), Num(1), Num(0)>>
BarNil == <<Num(2), Num(1), Num(1), Num(1), Nil, Num(0)>>
BarNaN == <<Num(2), Num(1), NaN, Num(1), Num(1), Num(0)>>
RawBars == {BarA, BarB, BarZero, BarShort, BarText, BarNil, BarNaN}

RECURSIVE SeqsUpTo(_, _)
\* the sequences of at most k different elements of S
SeqsUpTo(S, k) ==
    IF k = 0 THEN {<<>>}
    ELSE LET shorter == SeqsUpTo(S, k - 1)
         IN  shorter \cup
             UNION {{Append(q, x) : x \in {y \in S : \A j \in 1..Len(q) : q[j] # y}} :
                        q \in shorter}

\* bars that store_bars keeps, and the others
GoodBars == {BarA, BarB, BarZero}

\* the batches written to a series: no batch holds the same bar twice (BarA
\* and BarB in one batch are two rows for one key) nor more than one bar
\* that is not kept
BatchesFor(series) ==
    IF series = "BTCUSDT"
    THEN {q \in SeqsUpTo(RawBars, MaxRows) :
             Cardinality({k \in 1..Len(q) : q[k] \notin GoodBars}) <= 1}
    ELSE {<<BarB>>}

\* what fetch_ohlcv hands to load_window_bars: bars of six numbers
FetchedBatches == {<<>>, <<BarA>>, <<BarZero>>, <<BarA, BarZero>>}

\* a kline message of the live stream
Klines ==
    {[closed |-> cl, ts_ms |-> ts, open |-> 1, high |-> 1, low |-> lo, close |-> 1,
      volume |-> 0] : cl \in BOOLEAN, ts \in {0, 2}, lo \in {0, 1}}

\* what the table holds at first: nothing, or a bar of each series at
\* timestamp 1
InitTables ==
    {{}, {TableRow("BTCUSDT", BarA), TableRow("ETHUSDT", BarA)}}

InitStore ==
    /\ InitRun
    /\ bars = <<>>
    /\ bars_none = FALSE
    /\ config \in LongConfigs
    /\ strategy_module = AllCallbacks({}, {})
    /\ has_cancel_flag = FALSE
    /\ has_progress_cb = FALSE
    /\ budget = 0
    /\ FetchIdle
    /\ table \in InitTables
    /\ store_call = NoCall
    /\ writes_left = MaxWrites
    /\ tf_call = NoCall
    /\ ChartIdle

\* the table after a writer ran, and the writer on record
Written(via, series, batch, kline, out) ==
    /\ writes_left > 0
    /\ writes_left' = writes_left - 1
    /\ table' = out.table
    /\ store_call' = [fn |-> "store", via |-> via, series |-> series, bars |-> batch,
                      kline |-> kline, before |-> table, raised |-> out.raised]
    /\ UNCHANGED <<run_vars, broker_call, fetch_vars, tf_call, chart_vars>>

\* store.store_bars(exchange, symbol, timeframe, bars) called by any caller
CallStoreBars ==
    \E series \in StoreSeries : \E batch \in BatchesFor(series) :
        Written("direct", series, batch, Nil, StoreBars(table, series, batch))

\* load_window_bars, lines 178-180: `if bars: store.store_bars(...)`
StoreFetched ==
    \E batch \in FetchedBatches :
        Written("fetch", "BTCUSDT", batch, Nil,
                IF batch # <<>> THEN StoreBars(table, "BTCUSDT", batch)
                ELSE [table |-> table, raised |-> ""])

\* ChartView._on_kline, lines 507-520: a closed kline with positive
\* timestamp and prices is stored
OnKline ==
    \E k \in Klines :
        LET valid == k.ts_ms > 0 /\ k.open > 0 /\ k.high > 0 /\ k.low > 0 /\ k.close > 0
            batch == <<<<Num(k.ts_ms), Num(k.open), Num(k.high), Num(k.low),
                         Num(k.close), Num(k.volume)>>>>
        IN  Written("kline", "BTCUSDT", IF k.closed /\ valid THEN batch ELSE <<>>, k,
                    IF k.closed /\ valid THEN StoreBars(table, "BTCUSDT", batch)
                    ELSE [table |-> table, raised |-> ""])

NextStore ==
    \/ CallStoreBars
    \/ StoreFetched
    \/ OnKline

\* the ohlcv table under its writers
SpecStore == InitStore /\ [][NextStore]_vars

(***************************************************************************)
(* Properties of the table                                                 *)
(***************************************************************************)
\* a bar of at least 6 fields whose first six fields are all numbers or
\* spell numbers
WellFormed(bar) ==
    /\ Len(bar) >= 6
    /\ \A k \in 1..6 : bar[k].kind \in {"num", "str"}

\* the well-formed bars of the last batch, by index
WrittenIdx == {k \in 1..Len(store_call.bars) : WellFormed(store_call.bars[k])}

\* the row a well-formed bar of the last batch stands for
RowOf(k) ==
    LET bar == store_call.bars[k]
    IN  [series |-> store_call.series, ts |-> bar[1].val, open |-> bar[2].val,
         high |-> bar[3].val, low |-> bar[4].val, close |-> bar[5].val,
         volume |-> bar[6].val]

\* the last batch wrote to the key of row r
KeyWritten(r) == \E k \in WrittenIdx : SameKey(r, RowOf(k))

\* a write returned normally
Stored == store_call.fn = "store" /\ store_call.raised = ""

\* C25: the table holds at most one row per key (series, timestamp); after
\* a store_bars call the row of every key the batch wrote carries the values
\* of the last bar of the batch for that key, rows under other keys are as
\* they were, and storing the same batch once more leaves the table as it is.
C25_UpsertIdempotent ==
    /\ \A r \in table : \A q \in table : SameKey(r, q) => r = q
    /\ Stored =>
          /\ \A k \in WrittenIdx :
                (\A j \in WrittenIdx : SameKey(RowOf(j), RowOf(k)) => j <= k)
                    => RowOf(k) \in table
          /\ \A r \in store_call.before : ~KeyWritten(r) => r \in table
          /\ \A r \in table : ~KeyWritten(r) => r \in store_call.before
          /\ StoreBars(table, store_call.series, store_call.bars).table = table

\* a batch with two bars for one key written over a row of that key, with a
\* row of the other series at the same timestamp left alone
C25_Witness ==
    /\ Stored
    /\ store_call.series = "BTCUSDT"
    /\ \E j \in WrittenIdx : \E k \in WrittenIdx :
          j < k /\ SameKey(RowOf(j), RowOf(k)) /\ RowOf(j) # RowOf(k)
    /\ \E r \in store_call.before :
          /\ r.series = "BTCUSDT" /\ KeyWritten(r) /\ r \notin table
    /\ \E r \in table : r.series = "ETHUSDT" /\ r.ts = 1

\* the same bar stored by two calls in a row
C25_WitnessTwice ==
    /\ Stored
    /\ store_call.bars # <<>>
    /\ WrittenIdx # {}
    /\ table = store_call.before

\* C26: store_bars never raises on a bar with fewer than 6 fields or with a
\* non-numeric field: such bars are skipped, every well-formed bar of the
\* same batch is still upserted, and a batch with no well-formed bar leaves
\* the table unchanged.
C26_MalformedSkipped ==
    store_call.fn = "store" =>
        /\ store_call.raised = ""
        /\ \A k \in WrittenIdx : \E r \in table : SameKey(r, RowOf(k))
        /\ WrittenIdx = {} => table = store_call.before

\* what holds of C26: a batch whose malformed bars are short or have a field
\* that float() refuses (a word, None) is stored without them
C26_RefusedSkipped ==
    (store_call.fn = "store"
       /\ \A k \in 1..Len(store_call.bars) : store_call.bars[k] # BarNaN) =>
        /\ store_call.raised = ""
        /\ \A k \in WrittenIdx : \E r \in table : SameKey(r, RowOf(k))
        /\ WrittenIdx = {} => table = store_call.before

\* the failing case of C26: a batch with a nan field and a well-formed bar
\* raises, and the well-formed bar is not stored
C26_NaNRaises ==
    /\ store_call.fn = "store"
    /\ store_call.raised = "IntegrityError"
    /\ \E k \in WrittenIdx : \A r \in table : ~SameKey(r, RowOf(k))

\* open, high, low and close of a row are all positive
PositiveOHLC(r) == r.open > 0 /\ r.high > 0 /\ r.low > 0 /\ r.close > 0

\* C27: every row an ingestion (a provider fetch stored by the orchestrator,
\* a closed live kline) puts into the table has open, high, low and
\* close > 0: a bar with a non-positive value is rejected and never stored.
C27_StoredBarsValid ==
    (store_call.fn = "store" /\ store_call.via \in {"fetch", "kline"}) =>
        \A r \in table \ store_call.before : PositiveOHLC(r)

\* the failing case of C27: a fetched bar with a low of 0 is in the table
C27_ZeroStored ==
    /\ store_call.fn = "store"
    /\ store_call.via = "fetch"
    /\ \E r \in table \ store_call.before : r.low = 0

\* what holds of C27: the live path stores a kline only when it is closed
\* and its timestamp and prices are positive
C27_KlineValid ==
    (store_call.fn = "store" /\ store_call.via = "kline") =>
        /\ \A r \in table \ store_call.before : PositiveOHLC(r) /\ r.ts > 0
        /\ (~store_call.kline.closed \/ store_call.kline.low <= 0
              \/ store_call.kline.ts_ms <= 0) => table = store_call.before

(***************************************************************************)
(* data_fetch.py: timeframe_to_ms                                          *)
(*                                                                         *)
(* A timeframe is a sequence of characters.  Every value the function      *)
(* returns is a multiple of 60000 ms, and the values are counted in that   *)
(* unit, a minute: 30 days in milliseconds are beyond the checker's        *)
(* integers.  The characters are digits and letters; int() also reads a    *)
(* sign, blanks and underscores, which no timeframe here has.              *)
(***************************************************************************)
MaxTfLen == 3         \* longest timeframe string
Minute == 60000       \* the milliseconds of one minute

Digits == {"1", "2", "5"}
TfChars == Digits \cup {"m", "h", "d", "w", "M", "x"}

DigitValue(c) == CASE c = "1" -> 1 [] c = "2" -> 2 [] OTHER -> 5

\* str.lower() of one character
Lower(c) == IF c = "M" THEN "m" ELSE c

RECURSIVE DecimalValue(_)
\* the number a sequence of digits spells
DecimalValue(q) ==
    IF q = <<>> THEN 0
    ELSE 10 * DecimalValue(SubSeq(q, 1, Len(q) - 1)) + DigitValue(q[Len(q)])

\* int(s): the number, or ValueError for the empty string and for a string
\* with a character that is no digit
IntOf(q) ==
    IF q # <<>> /\ \A k \in 1..Len(q) : q[k] \in Digits
    THEN [exc |-> "", val |-> DecimalValue(q)]
    ELSE [exc |-> "ValueError", val |-> 0]

\* a week of five days
UnitMinutes_mut_week(unit) ==
    CASE unit = "m" -> 1
      [] unit = "h" -> 60
      [] unit = "d" -> 1440
      [] unit = "w" -> 5 * 1440
      [] unit = "M" -> 30 * 1440
      [] OTHER -> 0

\* lines 206-215: the minutes of one unit, 0 for a letter that is no unit
UnitMinutes(unit) ==
    CASE unit = "m" -> 1
      [] unit = "h" -> 60
      [] unit = "d" -> 1440
      [] unit = "w" -> 7 * 1440
      [] unit = "M" -> 30 * 1440
      [] OTHER -> 0

\* timeframe_to_ms, lines 198-216: the minutes returned, and the exception
\* that leaves the function, "" for a normal return
timeframe_to_ms(timeframe) ==
    LET unit == Lower(timeframe[Len(timeframe)])
        mult == IntOf(SubSeq(timeframe, 1, Len(timeframe) - 1))
    IN  IF timeframe = <<>> THEN [minutes |-> 1, raised |-> ""]
        ELSE IF mult.exc \in {"ValueError", "TypeError"}
        THEN [minutes |-> 1, raised |-> ""]
        ELSE IF mult.exc # "" THEN [minutes |-> 0, raised |-> mult.exc]
        ELSE IF UnitMinutes(unit) # 0
        THEN [minutes |-> mult.val * UnitMinutes(unit), raised |-> ""]
        ELSE [minutes |-> 1, raised |-> ""]

RECURSIVE StringsUpTo(_, _)
\* the strings over S of length at most k
StringsUpTo(S, k) ==
    IF k = 0 THEN {<<>>}
    ELSE LET shorter == StringsUpTo(S, k - 1)
         IN  shorter \cup {Append(q, c) : q \in shorter, c \in S}

\* the timeframes given to the function
Timeframes == StringsUpTo(TfChars, MaxTfLen) \cup {<<"b", "o", "g", "u", "s">>}

InitTf ==
    /\ InitRun
    /\ bars = <<>>
    /\ bars_none = FALSE
    /\ config \in LongConfigs
    /\ strategy_module = AllCallbacks({}, {})
    /\ has_cancel_flag = FALSE
    /\ has_progress_cb = FALSE
    /\ budget = 0
    /\ FetchIdle
    /\ table = {}
    /\ store_call = NoCall
    /\ writes_left = 0
    /\ ChartIdle
    /\ \E timeframe \in Timeframes :
          tf_call = [fn |-> "argument", timeframe |-> timeframe,
                     out |-> [minutes |-> 0, raised |-> ""]]

\* timeframe_to_ms(timeframe) on the timeframe handed in
CallTimeframeToMs ==
    /\ tf_call.fn = "argument"
    /\ tf_call' = [tf_call EXCEPT !.fn = "timeframe_to_ms",
                                  !.out = timeframe_to_ms(tf_call.timeframe)]
    /\ UNCHANGED <<run_vars, broker_call, fetch_vars, table, store_call, writes_left,
                   chart_vars>>

NextTf == CallTimeframeToMs

\* timeframe_to_ms called on its own
SpecTf == InitTf /\ [][NextTf]_vars

\* the call on record was given the count k followed by the letter c
CountAndUnit(k, c) ==
    /\ tf_call.fn = "timeframe_to_ms"
    /\ tf_call.timeframe # <<>>
    /\ tf_call.timeframe[Len(tf_call.timeframe)] = c
    /\ LET prefix == SubSeq(tf_call.timeframe, 1, Len(tf_call.timeframe) - 1)
       IN  /\ prefix # <<>>
           /\ \A j \in 1..Len(prefix) : prefix[j] \in Digits
           /\ DecimalValue(prefix) = k

\* the counts a timeframe of the model can spell
TfCounts == {DecimalValue(q) : q \in StringsUpTo(Digits, MaxTfLen - 1) \ {<<>>}}

\* the call on record returned the default
ReturnedDefault == tf_call.out.minutes * Minute = 60000

\* C28: timeframe_to_ms never raises; it maps "15m" to 900000, "1h" to
\* 3600000, "2d" to 172800000 and a count of weeks to count * 7 days, and
\* returns the default 60000 for the empty string, for a string whose prefix
\* is not an integer ("bogus") and for an unknown unit letter.
C28_TimeframeParsing ==
    tf_call.fn = "timeframe_to_ms" =>
        /\ tf_call.out.raised = ""
        /\ tf_call.timeframe = <<"1", "5", "m">> => tf_call.out.minutes * Minute = 900000
        /\ tf_call.timeframe = <<"1", "h">> => tf_call.out.minutes * Minute = 3600000
        /\ tf_call.timeframe = <<"2", "d">> => tf_call.out.minutes * Minute = 172800000
        /\ \A k \in TfCounts :
              CountAndUnit(k, "w") => tf_call.out.minutes = k * 7 * 24 * 60
        /\ tf_call.timeframe = <<>> => ReturnedDefault
        /\ tf_call.timeframe = <<"b", "o", "g", "u", "s">> => ReturnedDefault
        /\ (tf_call.timeframe # <<>>
              /\ \A k \in TfCounts :
                    \A c \in TfChars : ~CountAndUnit(k, c)) => ReturnedDefault
        /\ (\E k \in TfCounts : CountAndUnit(k, "x")) => ReturnedDefault

\* "15m" was parsed
C28_Witness ==
    /\ tf_call.fn = "timeframe_to_ms"
    /\ tf_call.timeframe = <<"1", "5", "m">>
    /\ tf_call.out.minutes = 15

\* "bogus", a count of weeks and an unknown unit were parsed
C28_WitnessBogus ==
    /\ tf_call.fn = "timeframe_to_ms"
    /\ tf_call.timeframe = <<"b", "o", "g", "u", "s">>
    /\ tf_call.out.minutes = 1

C28_WitnessWeeks == CountAndUnit(2, "w") /\ tf_call.out.minutes = 20160

C28_WitnessUnknown == CountAndUnit(5, "x") /\ tf_call.out.minutes = 1

\* C29: for a positive integer k, "kM" is k months of 30 days,
\* k * 30 * 86400000 ms, while "km" is k minutes, k * 60000 ms.
C29_MonthsAndMinutes ==
    \A k \in TfCounts :
        /\ CountAndUnit(k, "M") => tf_call.out.minutes = k * 30 * 24 * 60
        /\ CountAndUnit(k, "m") => tf_call.out.minutes = k

\* the failing case of C29: "1M" comes back as one minute
C29_MonthAsMinute ==
    /\ CountAndUnit(1, "M")
    /\ tf_call.out.minutes * Minute = 60000

(***************************************************************************)
(* The cache-only modes                                                    *)
(***************************************************************************)
\* the call on record is one of the cache-only modes
CacheOnlyCall == fetch_call.mode \in {"load_cached", "load_cached_full"}

\* the rows are in ascending timestamp order
AscendingTs(rows) == \A k \in 1..(Len(rows) - 1) : rows[k].ts < rows[k + 1].ts

\* no provider call was made, and the store and the history limit are as
\* they were
ReadOnlyCall ==
    /\ fetch_call.fetched = <<>>
    /\ cache = fetch_call.before
    /\ history_limit = fetch_call.limit_before

\* the rows are the most recent of the cache: no cached row outside them is
\* later than one of them
MostRecent(rows) ==
    \A r \in fetch_call.before \ RowSet(rows) : \A k \in 1..Len(rows) : r.ts < rows[k].ts

\* C30: load_cached_bars and load_cached_full never call the provider and
\* never write to the store; load_cached_full returns every cached bar in
\* ascending timestamp order, load_cached_bars returns at most bar_count
\* bars, the most recent ones, and both return an empty list when the series
\* has no cached rows.
C30_CacheOnly ==
    CacheOnlyCall =>
        /\ ReadOnlyCall
        /\ AscendingTs(fetch_call.ret)
        /\ fetch_call.before = {} => fetch_call.ret = <<>>
        /\ fetch_call.mode = "load_cached_full" => RowSet(fetch_call.ret) = fetch_call.before
        /\ fetch_call.mode = "load_cached" =>
              /\ Len(fetch_call.ret) <= fetch_call.args[1]
              /\ RowSet(fetch_call.ret) \subseteq fetch_call.before
              /\ MostRecent(fetch_call.ret)

\* the failing case of C30: load_cached_bars returned bar_count + 1 bars
C30_OneTooMany ==
    /\ fetch_call.mode = "load_cached"
    /\ Len(fetch_call.ret) = fetch_call.args[1] + 1

\* what holds of the cache-only modes: all of C30 with bar_count + 1 for the
\* cap
C30_CacheOnlyInclusive ==
    CacheOnlyCall =>
        /\ ReadOnlyCall
        /\ AscendingTs(fetch_call.ret)
        /\ fetch_call.before = {} => fetch_call.ret = <<>>
        /\ fetch_call.mode = "load_cached_full" => RowSet(fetch_call.ret) = fetch_call.before
        /\ fetch_call.mode = "load_cached" =>
              /\ Len(fetch_call.ret) <= fetch_call.args[1] + 1
              /\ RowSet(fetch_call.ret) \subseteq fetch_call.before
              /\ MostRecent(fetch_call.ret)

(***************************************************************************)
(* Provider failure                                                        *)
(***************************************************************************)
\* the call on record ended in the provider's exception
Raised == fetch_call.mode \in FetchingModes /\ fetch_call.path = "raised"

\* every timestamp cached before the call on record is cached after it
NothingRemoved == TsOf(fetch_call.before) \subseteq TsOf(cache)

\* the row was replaced by the bar the provider served for its timestamp in
\* a call that came back before the failing one
Refreshed(r) ==
    \E j \in 1..(Len(fetch_call.fetched) - 1) :
        /\ fetch_call.fetched[j][1] <= r.ts
        /\ r.ts <= fetch_call.fetched[j][2]
        /\ \E q \in provider : q.ts = r.ts /\ q \in cache

\* C31 as stated: when the provider call fails inside a fetching mode, no
\* bars are returned, the rows cached before the call are neither deleted
\* nor altered and the history limit is unchanged; no orchestrator call ever
\* removes a cached bar.
C31_ProviderFailure ==
    fetch_call.mode # "none" =>
        /\ NothingRemoved
        /\ Raised =>
              /\ fetch_call.ret = <<>>
              /\ fetch_call.before \subseteq cache
              /\ history_limit = fetch_call.limit_before

\* C31, amended: when the provider call fails inside a fetching mode, no
\* bars are returned, no row cached before the call is deleted, a row is
\* altered only by being replaced with the bar the provider served for its
\* timestamp in an earlier, successful provider call of the same invocation,
\* and the history limit is unchanged; no orchestrator call ever removes a
\* cached bar.
C31_FailureKeepsCache ==
    fetch_call.mode # "none" =>
        /\ NothingRemoved
        /\ Raised =>
              /\ fetch_call.ret = <<>>
              /\ \A r \in fetch_call.before : r \in cache \/ Refreshed(r)
              /\ history_limit = fetch_call.limit_before
              /\ Len(fetch_call.fetched) = 1 => cache = fetch_call.before

\* the third provider call of a recent-bars call failed after the forced
\* refresh had replaced a cached row
C31_Witness ==
    /\ Raised
    /\ fetch_call.mode = "recent"
    /\ Len(fetch_call.fetched) = 3
    /\ \E r \in fetch_call.before : r \notin cache /\ Refreshed(r)

\* the only provider call of a backfill failed with a history limit on record
C31_WitnessBackfill ==
    /\ Raised
    /\ fetch_call.mode = "backfill"
    /\ fetch_call.before # {}
    /\ cache = fetch_call.before

\* the provider call of a window request failed
C31_WitnessWindow ==
    /\ Raised
    /\ fetch_call.mode = "window"
    /\ history_limit.reached

(***************************************************************************)
(* The density test of window mode                                         *)
(***************************************************************************)
\* the call on record is a window request over a span that is not empty
WindowCall == fetch_call.mode = "window" /\ fetch_call.span[1] < fetch_call.span[2]

\* the rows number at least 90% of (end_ms - start_ms) / interval
NinetyPercent(rows) ==
    10 * Len(rows) * FetchInterval >= 9 * (fetch_call.span[2] - fetch_call.span[1])

\* C34: load_window_bars returns the cached rows without a provider call
\* only if they are gap-free and number at least 90% of the expected count
\* (end_ms - start_ms) / interval; a cached window with fewer bars than
\* 0.9 * (end_ms - start_ms) / interval always triggers a provider fetch of
\* the full span.
C34_WindowDensity ==
    WindowCall =>
        /\ fetch_call.fetched = <<>> =>
              (RowsBefore # <<>> /\ ~GapAmong(RowsBefore) /\ NinetyPercent(RowsBefore))
        /\ ~NinetyPercent(RowsBefore) => fetch_call.fetched = <<fetch_call.span>>

\* the failing case of C34: a window with fewer rows than 90% of the
\* expected count was returned from the cache
C34_SparseAccepted ==
    /\ WindowCall
    /\ fetch_call.fetched = <<>>
    /\ fetch_call.ret = RowsBefore
    /\ ~NinetyPercent(RowsBefore)

\* what holds of window mode: the count is compared with the 90% rounded
\* down to a whole number of bars
C34_WindowDensityFloor ==
    WindowCall =>
        /\ fetch_call.fetched = <<>> =>
              (RowsBefore # <<>> /\ ~GapAmong(RowsBefore)
                 /\ 10 * (Len(RowsBefore) + 1) * FetchInterval
                        > 9 * (fetch_call.span[2] - fetch_call.span[1]) - 9 * FetchInterval)
        /\ (RowsBefore = <<>> \/ GapAmong(RowsBefore))
              => fetch_call.fetched = <<fetch_call.span>>

(***************************************************************************)
(* ui/chart_view.py: the chart view, its fetch worker and its live stream  *)
(*                                                                         *)
(* The handlers of ChartView run on the GUI thread, one at a time.  A      *)
(* DataFetchWorker and a LiveKlineWorker are threads of their own; what    *)
(* they emit is queued and handled by the GUI thread in the order it was   *)
(* emitted.  A worker is known by the number it was started as, and 0      *)
(* stands for no worker; a thread that has ended is no longer kept.        *)
(***************************************************************************)
MaxRequests == 2      \* fetch requests in one behaviour
MaxKlines == 1        \* kline messages in one behaviour

Symbols == {"BTCUSDT", "ETHUSDT"}
ChartTimeframes == {"1m", "1h"}

\* the worker is never taken for running
isRunning_mut_never(id) == FALSE

\* QThread.isRunning() of the worker started as id
isRunning(id) == \E w \in workers : w.id = id /\ w.running

\* time.time() in ms: the clock has advanced with every request
ClockMs == MaxRequests - requests_left + 1

\* ChartView._start_fetch, lines 405-425, on the view v its caller left
start_fetch(v, mode) ==
    IF v.worker # 0 /\ isRunning(v.worker)
    THEN /\ view' = v
         /\ workers' = workers
    ELSE LET id == v.worker + 1
         IN  /\ view' = [v EXCEPT !.worker = id, !.last_fetch_mode = mode,
                                  !.fetch_start_ms = ClockMs, !.loading = TRUE]
             /\ workers' = workers \cup
                   {[id |-> id, running |-> TRUE, emitted |-> FALSE]}

\* a handler that asks for a fetch
Requested(v, mode, handler) ==
    /\ requests_left > 0
    /\ requests_left' = requests_left - 1
    /\ start_fetch(v, mode)
    /\ view_log' = [op |-> handler]
    /\ UNCHANGED <<streams, signals, klines_left>>
    /\ UNCHANGED <<run_vars, broker_call, fetch_vars, store_vars>>

\* _load_initial_data, line 382
InitialMode(use_cache_only) == IF use_cache_only THEN "load_cached" ELSE "load"

\* _set_timeframe, lines 530-541, on a timeframe other than the current one;
\* the series may or may not have cached rows
SetTimeframe ==
    \E timeframe \in ChartTimeframes \ {view.current_timeframe}, cached \in BOOLEAN :
        Requested([view EXCEPT !.current_timeframe = timeframe],
                  InitialMode(cached), "_set_timeframe")

\* the user picks another symbol: _on_symbol_changed, lines 388-392
OnSymbolChanged ==
    \E symbol \in Symbols \ {view.symbol}, cached \in BOOLEAN :
        Requested([view EXCEPT !.symbol = symbol], InitialMode(cached),
                  "_on_symbol_changed")

\* _on_load_clicked, lines 385-386; the button is disabled while loading
\* (line 467)
OnLoadClicked ==
    /\ ~view.loading
    /\ Requested(view, "load", "_on_load_clicked")

\* _trigger_window_load, lines 592-625, with a pending view outside the
\* loaded window
TriggerWindowLoad == Requested(view, "window", "_trigger_window_load")

\* DataFetchWorker.run, lines 45-78: the mode returns and data_ready is
\* emitted, or it raises and error is emitted
WorkerEmits ==
    \E w \in workers : \E sig \in {"data_ready", "error"} :
        /\ w.running /\ ~w.emitted
        /\ workers' = (workers \ {w}) \cup {[w EXCEPT !.emitted = TRUE]}
        /\ signals' = Append(signals, [sig |-> sig, from |-> w.id])
        /\ UNCHANGED <<view, streams, view_log, requests_left, klines_left>>
        /\ UNCHANGED <<run_vars, broker_call, fetch_vars, store_vars>>

\* run() returned: the thread is no longer running and finished is emitted
WorkerExits ==
    \E w \in workers :
        /\ w.running /\ w.emitted
        /\ workers' = workers \ {w}
        /\ signals' = Append(signals, [sig |-> "finished", from |-> w.id])
        /\ UNCHANGED <<view, streams, view_log, requests_left, klines_left>>
        /\ UNCHANGED <<run_vars, broker_call, fetch_vars, store_vars>>

\* LiveKlineWorker.on_message, lines 142-160: a message of the worker's
\* stream arrives and kline is emitted; a stopped worker emits nothing
StreamMessage ==
    \E s \in streams : \E closed \in BOOLEAN :
        /\ klines_left > 0
        /\ klines_left' = klines_left - 1
        /\ signals' = Append(signals,
                             [sig |-> "kline", from |-> s.id, symbol |-> s.symbol,
                              timeframe |-> s.timeframe, closed |-> closed])
        /\ UNCHANGED <<view, workers, streams, view_log, requests_left>>
        /\ UNCHANGED <<run_vars, broker_call, fetch_vars, store_vars>>

\* _start_live_stream, lines 482-495: the running stream is stopped and one
\* for the symbol and timeframe now shown is started
start_live_stream ==
    LET id == view.kline_worker + 1
    IN  /\ streams' =
              {s \in streams : s.id # view.kline_worker}
              \cup {[id |-> id, symbol |-> view.symbol,
                     timeframe |-> view.current_timeframe]}
        /\ view' = [view EXCEPT !.kline_worker = id]

\* the GUI thread handles the oldest queued signal: _on_data_ready (427-451),
\* _on_error (453-457), _on_fetch_finished (459-464), _on_kline (501-521)
Deliver ==
    /\ signals # <<>>
    /\ signals' = Tail(signals)
    /\ LET m == Head(signals)
       IN  CASE m.sig = "data_ready" ->
                  /\ start_live_stream
                  /\ view_log' = [op |-> "_on_data_ready"]
             [] m.sig = "error" ->
                  /\ view_log' = [op |-> "_on_error"]
                  /\ UNCHANGED <<view, streams>>
             [] m.sig = "finished" ->
                  /\ view' = [view EXCEPT !.loading = FALSE, !.fetch_start_ms = None]
                  /\ view_log' = [op |-> "_on_fetch_finished"]
                  /\ UNCHANGED streams
             [] OTHER ->
                  /\ view_log' = [op |-> "_on_kline",
                                  stream |-> <<m.symbol, m.timeframe>>,
                                  stored |-> m.closed,
                                  key |-> <<view.symbol, view.current_timeframe>>]
                  /\ UNCHANGED <<view, streams>>
    /\ UNCHANGED <<workers, requests_left, klines_left>>
    /\ UNCHANGED <<run_vars, broker_call, fetch_vars, store_vars>>

InitChart ==
    /\ InitRun
    /\ bars = <<>>
    /\ bars_none = FALSE
    /\ config \in {RunConfig(25, LevScale, 100, 100, 0, TRUE)}
    /\ strategy_module = AllCallbacks({}, {})
    /\ has_cancel_flag = FALSE
    /\ has_progress_cb = FALSE
    /\ budget = 0
    /\ FetchIdle
    /\ StoreIdle
    /\ view = [symbol |-> "BTCUSDT", current_timeframe |-> "1m", worker |-> 0,
               last_fetch_mode |-> "load", fetch_start_ms |-> None,
               loading |-> FALSE, kline_worker |-> 0]
    /\ workers = {}
    /\ streams = {}
    /\ signals = <<>>
    /\ view_log = [op |-> "none"]
    /\ requests_left = MaxRequests
    /\ klines_left = MaxKlines

NextChart ==
    \/ SetTimeframe
    \/ OnSymbolChanged
    \/ OnLoadClicked
    \/ TriggerWindowLoad
    \/ WorkerEmits
    \/ WorkerExits
    \/ StreamMessage
    \/ Deliver

\* one chart view with its worker threads
SpecChart == InitChart /\ [][NextChart]_vars

\* the DataFetchWorker threads that are running
RunningWorkers == {w \in workers : w.running}

\* C33, the state part: at most one DataFetchWorker is running
C33_OneRunning == Cardinality(RunningWorkers) <= 1

\* C33, the step part: a request made while a worker is running starts no
\* worker, leaves _last_fetch_mode and _fetch_start_ms as they were and
\* queues nothing
C33_DroppedStep ==
    (requests_left' < requests_left /\ RunningWorkers # {}) =>
        /\ workers' = workers
        /\ view'.worker = view.worker
        /\ view'.last_fetch_mode = view.last_fetch_mode
        /\ view'.fetch_start_ms = view.fetch_start_ms
        /\ signals' = signals

\* C33: a ChartView never has more than one DataFetchWorker running, and a
\* fetch request issued while a worker is running starts no second worker
\* and changes no fetch state: it is dropped, not queued.
C33_SingleInFlight == [](C33_OneRunning) /\ [][C33_DroppedStep]_vars

\* a request was dropped: two requests were made and one worker was started,
\* which is still running
C33_Witness ==
    /\ requests_left <= MaxRequests - 2
    /\ view.worker = 1
    /\ RunningWorkers # {}
    /\ view.last_fetch_mode = "load"
    /\ view.fetch_start_ms = 1
    /\ view_log.op = "_trigger_window_load"

\* a second worker was started after the first had finished
C33_WitnessSecond ==
    /\ view.worker = 2
    /\ Cardinality(RunningWorkers) = 1

\* C40: a closed kline emitted by a LiveKlineWorker is written to the bar
\* cache only under the (symbol, timeframe) of the stream that produced it.
C40_LiveKey ==
    (view_log.op = "_on_kline" /\ view_log.stored) => view_log.key = view_log.stream

\* the failing case of C40: a closed kline of the 1m stream was written
\* under the 1h timeframe while the stream that produced it was running
C40_WrongKey ==
    /\ view_log.op = "_on_kline"
    /\ view_log.stored
    /\ view_log.stream = <<"BTCUSDT", "1m">>
    /\ view_log.key = <<"BTCUSDT", "1h">>
    /\ \E s \in streams : s.id = view.kline_worker /\ s.timeframe = "1m"

(***************************************************************************)
(* run_backtest with a strategy callback that raises                       *)
(*                                                                         *)
(* run_backtest has no try around the callbacks of the loop: an exception  *)
(* leaves the function at the call, with the context and the result as the *)
(* statements before the call left them.                                   *)
(***************************************************************************)
\* the exception leaves run_backtest: nothing is returned
Propagate ==
    /\ pc' = "raised"
    /\ UNCHANGED <<inputs, cancel_requested, i, oi, status, ctx_orders, ctx_logs,
                   pending_orders, last_warn, returned, budget, queued, polls,
                   processed, req_processed, equity_seen, other_vars>>

\* lines 86-91: on_order raises on a rejected order
OnOrderRaisesOnReject ==
    /\ pc = "orders"
    /\ strategy_module.on_order
    /\ ~FlattenDropped
    /\ ~FillOk
    /\ result' = [result EXCEPT !.orders = Append(@, RejectedOrder)]
    /\ resolved' = Append(resolved, Audit)
    /\ events' = OnOrder(events, position, portfolio.cash)
    /\ Propagate
    /\ UNCHANGED <<position, portfolio, trading_enabled>>

\* lines 93-104, 131-132: on_order raises on the fill that opened a position
OnOrderRaisesOnOpen ==
    /\ pc = "orders"
    /\ strategy_module.on_order
    /\ ~FlattenDropped
    /\ FillOk
    /\ position.size = 0
    /\ result' = [result EXCEPT !.orders = Append(@, FilledOrder)]
    /\ resolved' = Append(resolved, Audit)
    /\ position' = [size |-> IF OSide = "BUY" THEN OSize ELSE -OSize,
                    entry_price |-> FillPrice, entry_ts |-> CurTs]
    /\ portfolio' = [portfolio EXCEPT !.cash = @ - Fee]
    /\ events' = OnOrder(events, position', portfolio'.cash)
    /\ Propagate
    /\ UNCHANGED trading_enabled

\* lines 111-129: on_trade raises; the cash was settled (114-115) and the
\* trade appended (127), close_position (130) is not reached
OnTradeRaises ==
    /\ pc = "orders"
    /\ strategy_module.on_trade
    /\ ~FlattenDropped
    /\ FillOk
    /\ position.size # 0
    /\ ~SameDirection
    /\ result' = [result EXCEPT !.orders = Append(@, FilledOrder),
                                !.trades = Append(@, ClosingTrade)]
    /\ resolved' = Append(resolved, Audit)
    /\ portfolio' = [portfolio EXCEPT
          !.cash = @ + (FillPrice - OrElse(position.entry_price, FillPrice))
                          * position.size - Fee]
    /\ events' = Append(events, Event("on_trade", i, Len(result.trades) + 1,
                                      position, portfolio'.cash))
    /\ Propagate
    /\ UNCHANGED <<position, trading_enabled>>

\* lines 111-132: on_trade returns and on_order raises on the closing fill
OnOrderRaisesOnClose ==
    /\ pc = "orders"
    /\ strategy_module.on_order
    /\ ~FlattenDropped
    /\ FillOk
    /\ position.size # 0
    /\ ~SameDirection
    /\ result' = [result EXCEPT !.orders = Append(@, FilledOrder),
                                !.trades = Append(@, ClosingTrade)]
    /\ resolved' = Append(resolved, Audit)
    /\ portfolio' = [portfolio EXCEPT
          !.cash = @ + (FillPrice - OrElse(position.entry_price, FillPrice))
                          * position.size - Fee]
    /\ position' = close_position(position)
    /\ events' =
          LET e1 == IF strategy_module.on_trade
                    THEN Append(events, Event("on_trade", i, Len(result.trades) + 1,
                                          position, portfolio'.cash))
                    ELSE events
          IN  OnOrder(e1, position', portfolio'.cash)
    /\ Propagate
    /\ UNCHANGED trading_enabled

\* lines 134-141: on_bar raises; in warmup trading_enabled stays False
OnBarRaises ==
    /\ pc = "on_bar"
    /\ strategy_module.on_bar
    /\ events' = Append(events, Event("on_bar", i, IF EnabledDuring(CurTs) THEN 1 ELSE 0,
                                      position, portfolio.cash))
    /\ trading_enabled' = IF Warmup(CurTs) THEN FALSE ELSE trading_enabled
    /\ Propagate
    /\ UNCHANGED <<position, portfolio, result, resolved>>

InitRaise ==
    /\ InitRun
    /\ \E len \in 1..MaxBars : bars = BarSeries(0, len)
    /\ bars_none = FALSE
    /\ config \in {RunConfig(25, LevScale, 100, 100, 0, TRUE)}
    /\ strategy_module \in {AllCallbacks(0..MaxBars, Requests)}
    /\ \E hooks \in {<<TRUE, TRUE>>, <<FALSE, FALSE>>} :
          has_cancel_flag = hooks[1] /\ has_progress_cb = hooks[2]
    /\ budget = MaxOrders
    /\ FetchIdle
    /\ StoreIdle
    /\ ChartIdle

NextRaise ==
    \/ Next
    \/ OnOrderRaisesOnReject
    \/ OnOrderRaisesOnOpen
    \/ OnTradeRaises
    \/ OnOrderRaisesOnClose
    \/ OnBarRaises

\* runs whose strategy callbacks may raise
SpecRaise == InitRaise /\ [][NextRaise]_vars

\* the FILLED orders that met an open position of the other direction
ClosingFills ==
    {a \in OrderIdx :
        /\ Orders[a].status = "FILLED"
        /\ resolved[a].held # 0
        /\ (resolved[a].held > 0) = (Orders[a].side = "SELL")}

\* the FILLED orders that met a flat position
OpeningFills ==
    {a \in OrderIdx : Orders[a].status = "FILLED" /\ resolved[a].held = 0}

RECURSIVE SumOver(_, _)
\* the sum of f over the set S
SumOver(f, S) ==
    IF S = {} THEN 0
    ELSE LET x == CHOOSE y \in S : TRUE IN f[x] + SumOver(f, S \ {x})

\* the cash is the initial cash, less the fee of every opening fill, plus the
\* net pnl of every trade
CashSettled ==
    portfolio.cash =
        config.initial_cash
          - SumOver([a \in OrderIdx |-> Orders[a].fee], OpeningFills)
          + SumOver([t \in 1..Len(Trades) |-> Trades[t].pnl], 1..Len(Trades))

\* the position is the one the last opening or closing fill left: flat after
\* a closing fill, open after an opening fill
PositionSettled ==
    LET fills == OpeningFills \cup ClosingFills
        last == CHOOSE a \in fills : \A b \in fills : b <= a
    IN  IF fills = {} THEN position.size = 0
        ELSE (last \in ClosingFills) = (position.size = 0)

\* C32: when a strategy callback raises during run_backtest the exception
\* is not caught, and the state at that moment is consistent: there is a
\* Trade for a closing fill iff the position was reset to flat and the cash
\* reflects the fill, and every FILLED order has had its effect applied.
C32_ConsistentOnRaise ==
    (pc = "raised" /\ events # <<>>) =>
        /\ ~returned
        /\ Len(Trades) = Cardinality(ClosingFills)
        /\ CashSettled
        /\ PositionSettled

\* the failing case of C32: on_trade raised, the ledger holds the trade of
\* the closing fill and the position is still open
C32_TradeWithOpenPosition ==
    /\ pc = "raised"
    /\ Len(Trades) = 1
    /\ events # <<>>
    /\ Last(events).fn = "on_trade"
    /\ position.size # 0
    /\ CashSettled

\* what holds: the state is consistent when on_order or on_bar raises
C32_ConsistentUnlessOnTrade ==
    (pc = "raised" /\ events # <<>> /\ Last(events).fn # "on_trade") =>
        /\ ~returned
        /\ Len(Trades) = Cardinality(ClosingFills)
        /\ CashSettled
        /\ PositionSettled

(***************************************************************************)
(* The trade ledger                                                        *)
(***************************************************************************)
\* every trade ends no earlier than it began and was held one bar at least,
\* and a trade begins no earlier than the one before it ended
C35_Ordered ==
    /\ \A t \in 1..Len(Trades) :
          /\ Trades[t].entry_ts <= Trades[t].exit_ts
          /\ Trades[t].bars_held >= 1
    /\ \A t \in 1..(Len(Trades) - 1) : Trades[t].exit_ts <= Trades[t + 1].entry_ts

\* C35: at every point of a run every Trade has entry_ts <= exit_ts and
\* bars_held >= 1, and consecutive trades do not overlap: exit_ts of trade k
\* <= entry_ts of trade k+1.
C35_TradeOrdering == [](C35_Ordered)

\* two trades, the first opened and closed on one bar, the second opened on
\* the bar after and closed by the forced close-out
C35_Witness ==
    /\ returned
    /\ Len(Trades) = 2
    /\ Trades[1].entry_ts = Trades[1].exit_ts
    /\ Trades[1].exit_ts < Trades[2].entry_ts
    /\ Trades[2].entry_ts < Trades[2].exit_ts

\* a position closed and another opened on the same bar
C35_WitnessSameBar ==
    /\ Len(Trades) >= 1
    /\ position.size # 0
    /\ position.entry_ts = Trades[Len(Trades)].exit_ts

(***************************************************************************)
(* Runs with orders of size zero                                           *)
(***************************************************************************)
\* requests of a strategy that also submits a BUY of size 0, which the loop
\* reads as it reads any size (line 76, `float(o.get("size", 0.0))`)
ZeroRequests ==
    {[side |-> "BUY", size |-> 0], [side |-> "BUY", size |-> 1],
     [side |-> "BUY", size |-> MaxSize], [side |-> "SELL", size |-> 1],
     [side |-> "FLATTEN", size |-> 0]}

InitZero ==
    /\ InitRun
    /\ \E len \in 1..MaxBars : bars = BarSeries(0, len)
    /\ bars_none = FALSE
    /\ config \in {RunConfig(25, LevScale, 100, 100, 0, TRUE),
                   RunConfig(25, 2 * LevScale, 0, 100, 0, FALSE)}
    /\ strategy_module \in {AllCallbacks(0..MaxBars, ZeroRequests)}
    /\ \E hooks \in {<<TRUE, TRUE>>, <<FALSE, FALSE>>} :
          has_cancel_flag = hooks[1] /\ has_progress_cb = hooks[2]
    /\ budget = MaxOrders
    /\ FetchIdle
    /\ StoreIdle
    /\ ChartIdle

\* runs of a strategy that may submit orders of size zero
SpecZero == InitZero /\ [][Next]_vars

\* size 0 goes with a null entry_price and a null entry_ts, and only with them
WellFormedPosition(pos) ==
    (pos.size = 0) <=> (pos.entry_price = None /\ pos.entry_ts = None)

StrategyCallbacks == {"on_init", "on_bar", "on_order", "on_trade", "on_finish"}

\* C36: whenever a strategy callback is invoked and when run_backtest
\* returns, position.size = 0 iff entry_price and entry_ts are null; an order
\* of size 0 resolved while flat does not leave a flat position with an
\* entry_price or entry_ts.
C36_PositionWellFormed ==
    /\ \A e \in 1..Len(events) :
          events[e].fn \in StrategyCallbacks => WellFormedPosition(events[e].pos)
    /\ returned => WellFormedPosition(position)

\* the failing case of C36: a BUY of size 0 was filled while flat and
\* run_backtest returned a flat position carrying an entry price
C36_FlatWithEntry ==
    /\ returned
    /\ position.size = 0
    /\ position.entry_price # None
    /\ position.entry_ts # None
    /\ Len(Orders) >= 1
    /\ Orders[Len(Orders)].size = 0
    /\ Orders[Len(Orders)].status = "FILLED"

\* what holds: the position is well formed as long as no order of size 0
\* was filled while flat
C36_WellFormedWithoutZero ==
    (\A a \in OrderIdx : ~(Orders[a].size = 0 /\ Orders[a].status = "FILLED"
                              /\ resolved[a].held = 0))
        => C36_PositionWellFormed

(***************************************************************************)
(* Orders against the open position                                        *)
(***************************************************************************)
\* the records of orders that met an open position of the opposite
\* direction, a resolved FLATTEN among them
ClosingOrders ==
    {a \in OrderIdx :
        /\ resolved[a].held # 0
        /\ (resolved[a].held > 0) = (Orders[a].side = "SELL")}

\* the Trade a closing fill produced: trades are appended in the order of the
\* closing fills
TradeOfFill(a) == Trades[Cardinality({b \in ClosingFills : b <= a})]

\* the ledger of the orders against the open position: the margin of the
\* order's own size decides between REJECTED and FILLED; a FLATTEN has the
\* size of the position; a fill has a Trade of the whole position whose fee is
\* the fee of the order's size
C37_Ledger ==
    \A a \in ClosingOrders :
        LET o == Orders[a]
            held == resolved[a].held
            required == margin_required(o.size, TriedPrice(a), config.leverage)
        IN  /\ RequestOf(a).side = "FLATTEN" => o.size = Abs(held)
            /\ IF required > resolved[a].equity
               THEN o.status = "REJECTED" /\ o.reason = "margin"
               ELSE /\ o.status = "FILLED"
                    /\ o.fee = compute_fee(o.size, o.fill_price,
                                           config.commission_bps)
                    /\ Cardinality({b \in ClosingFills : b <= a}) <= Len(Trades)
                    /\ TradeOfFill(a).size = Abs(held)
                    /\ TradeOfFill(a).exit_ts = o.fill_ts
                    /\ TradeOfFill(a).exit_price = o.fill_price
                    /\ TradeOfFill(a).fee_total = o.fee

\* the step that records an order against the open position: a rejection
\* leaves the position open and the ledger of trades as it was, a fill makes
\* the position flat and adds one Trade
C37_ClosingStep ==
    (/\ Len(result'.orders) = Len(Orders) + 1
     /\ position.size # 0
     /\ (position.size > 0) = (result'.orders[Len(Orders) + 1].side = "SELL")) =>
        IF result'.orders[Len(Orders) + 1].status = "REJECTED"
        THEN /\ position' = position
             /\ portfolio' = portfolio
             /\ result'.trades = Trades
        ELSE /\ position' = close_position(position)
             /\ position'.size = 0
             /\ Len(result'.trades) = Len(Trades) + 1

\* C37: closing orders are subject to the margin check: a FLATTEN or an
\* opposite-direction order against an open position whose required margin
\* |order size| * fill_price / leverage exceeds the current equity is recorded
\* REJECTED with reason "margin" and the position remains open; an accepted
\* opposite-direction order closes the entire position whatever its own size,
\* the exit fee being computed on the order's size.
C37_ClosingMargin == [](C37_Ledger) /\ [][C37_ClosingStep]_vars

\* a SELL larger than the long position it met was rejected on margin, and
\* the position is still the one it met
C37_Witness ==
    \E a \in ClosingOrders :
        /\ a = Len(Orders)
        /\ Orders[a].status = "REJECTED"
        /\ Orders[a].reason = "margin"
        /\ Abs(Orders[a].size) > Abs(resolved[a].held)
        /\ position.size = resolved[a].held

\* an accepted order of another size than the position closed all of it
C37_WitnessOtherSize ==
    \E a \in ClosingFills :
        /\ Orders[a].size # Abs(resolved[a].held)
        /\ Cardinality({b \in ClosingFills : b <= a}) <= Len(Trades)
        /\ TradeOfFill(a).size = Abs(resolved[a].held)
        /\ TradeOfFill(a).fee_total > 0
        /\ TradeOfFill(a).fee_total =
              compute_fee(Orders[a].size, Orders[a].fill_price,
                          config.commission_bps)

(***************************************************************************)
(* Forced close-outs                                                       *)
(***************************************************************************)
\* a forced close-out took place
ForcedCloseOut == \E e \in 1..Len(events) : events[e].fn = "close_out"

\* the step through lines 145-183: no Order record, no on_trade or on_order
\* call and no equity sample is added; an open position of a canceled run, or
\* of a finished run with close_on_finish, is closed by one Trade at the close
\* price of the bar, and nothing else changes the position or the trades
C38_CloseOutStep ==
    pc = "closeout" =>
        LET forced == position.size # 0
                        /\ (status = "CANCELED" \/ config.close_on_finish)
            k == IF status = "CANCELED" THEN Min(i, n - 1) ELSE n - 1
        IN  /\ result'.orders = Orders
            /\ result'.equity_ts = result.equity_ts
            /\ result'.equity = result.equity
            /\ result'.drawdown = result.drawdown
            /\ result'.position_size = result.position_size
            /\ result'.price = result.price
            /\ \A e \in (Len(events) + 1)..Len(events') :
                  events'[e].fn \notin {"on_trade", "on_order"}
            /\ IF forced
               THEN /\ Len(result'.trades) = Len(Trades) + 1
                    /\ SubSeq(result'.trades, 1, Len(Trades)) = Trades
                    /\ Last(result'.trades).exit_price = Bar(k).close
                    /\ Last(result'.trades).exit_ts = Bar(k).ts
                    /\ Last(result'.trades).size = Abs(position.size)
                    /\ Last(result'.trades).bars_held = 1
                    /\ position' = close_position(position)
               ELSE /\ result'.trades = Trades
                    /\ position' = position
                    /\ portfolio' = portfolio

\* on return the trades are the closing fills, and one more after a forced
\* close-out; on_trade was called once per closing fill
C38_CountOnReturn ==
    returned =>
        /\ Len(Trades) =
              Cardinality(ClosingFills) + (IF ForcedCloseOut THEN 1 ELSE 0)
        /\ strategy_module.on_trade =>
              Cardinality(CallsOf("on_trade")) = Cardinality(ClosingFills)

\* C38: forced close-outs (on cancellation or close_on_finish) append a Trade
\* without appending any Order record and without invoking on_trade or
\* on_order, use the bar's close price with no slippage, and add no equity
\* sample; on return the number of trades is the number of position-closing
\* FILLED orders, plus one if a forced close-out happened.
C38_ForcedCloseOut == [](C38_CountOnReturn) /\ [][C38_CloseOutStep]_vars

\* a canceled run returned after its open position was closed by force, the
\* trade priced at the close of the bar of the break, which differs from the
\* price a market fill would have had
C38_Witness ==
    /\ returned
    /\ status = "CANCELED"
    /\ ForcedCloseOut
    /\ Len(Trades) = Cardinality(ClosingFills) + 1
    /\ Len(Trades) > Cardinality(CallsOf("on_trade"))
    /\ Last(Trades).exit_price = Bar(i).close
    /\ Last(Trades).exit_price #
          compute_fill_price(Bar(i).close, "SELL", config.slippage_bps)
    /\ Last(Trades).exit_price #
          compute_fill_price(Bar(i).close, "BUY", config.slippage_bps)

\* a finished run returned after close_on_finish closed its position
C38_WitnessFinish ==
    /\ returned
    /\ status = "DONE"
    /\ ForcedCloseOut
    /\ Len(Trades) = Cardinality(ClosingFills) + 1
    /\ Last(Trades).exit_ts = Bar(n - 1).ts
    /\ Last(Trades).exit_price = Bar(n - 1).close

(***************************************************************************)
(* Orders pending at the cancellation                                      *)
(***************************************************************************)
\* the orders queued during on_bar(k - 1), pending when index k is polled
PendingAt(k) == {q \in queued : q.qi = k - 1}

\* with cancel_flag() true at index k, no order queued during on_bar(k - 1)
\* has an Order record, no order was resolved at k or later, and on_order was
\* not called at k or later
C39_Discarded ==
    \A p \in PolledTrue :
        /\ \A q \in PendingAt(p.i) : RecordsOf(q) = {}
        /\ \A a \in OrderIdx : resolved[a].ri < p.i
        /\ \A e \in CallsOf("on_order") : events[e].i < p.i
        /\ returned => pending_orders = <<>>

\* from the break on no Order record is added and no on_order or on_trade
\* call is made, and the position changes only by the forced close-out
C39_AfterCancelStep ==
    (status = "CANCELED" \/ status' = "CANCELED") =>
        /\ result'.orders = Orders
        /\ resolved' = resolved
        /\ \A e \in (Len(events) + 1)..Len(events') :
              events'[e].fn \notin {"on_trade", "on_order"}
        /\ position' # position =>
              /\ pc = "closeout"
              /\ position' = close_position(position)
              /\ Len(result'.trades) = Len(Trades) + 1

\* C39: orders pending at cancellation are discarded: when cancel_flag returns
\* true at index i, the orders queued during on_bar(ctx, i-1) are never
\* resolved; they produce no Order record, no on_order call and no position
\* change, and the only position change after the cancel is the forced
\* close-out.
C39_PendingDiscarded == [](C39_Discarded) /\ [][C39_AfterCancelStep]_vars

\* a canceled run returned with a FLATTEN that was pending at the break and
\* has no record, the open position having been closed by force
C39_Witness ==
    /\ returned
    /\ status = "CANCELED"
    /\ \E p \in PolledTrue : \E q \in PendingAt(p.i) :
          /\ p.i = cancel_every
          /\ q.side = "FLATTEN"
          /\ RecordsOf(q) = {}
    /\ ForcedCloseOut
    /\ position.size = 0

\* a pending BUY was discarded and the run returned flat with no trade
C39_WitnessNeverOpened ==
    /\ returned
    /\ status = "CANCELED"
    /\ \E p \in PolledTrue : \E q \in PendingAt(p.i) : q.side = "BUY"
    /\ Orders = <<>>
    /\ Trades = <<>>
    /\ position.size = 0

====
